---------------------------- MODULE Spec2Model ----------------------------
(***************************************************************************)
(* Model of the segmentation-and-context engine of Voicer:                 *)
(*   - ContextManager   (src/src/core/context_manager.py)                  *)
(*   - count_tokens     (src/src/utils/token_counter.py, method 'qwen')    *)
(*   - VADProcessor     (src/src/core/vad_processor.py)                    *)
(*   - SegmentManager   (src/src/core/segment_manager.py)                  *)
(*   - Pipeline         (src/src/core/pipeline.py)                         *)
(*   - ASRClient        (src/src/core/asr_client.py)                       *)
(*   - SiliconFlowBackend (src/src/core/asr_backends/siliconflow.py)       *)
(*                                                                         *)
(* A text is a sequence of one-character strings.  The characters used     *)
(* stand for the character classes the token counter distinguishes:        *)
(*   "Z" a CJK ideograph, "a" "b" Latin letters, "1" "2" digits,           *)
(*   "," a punctuation mark, "_" a word character of no counted class,     *)
(*   " " and "\n" whitespace.                                              *)
(***************************************************************************)
EXTENDS Integers, Sequences, FiniteSets, TLC

VARIABLES
    \* ContextManager
    max_tokens,        \* self.max_tokens
    scenario,          \* self.scenario
    context_history,   \* self.context_history
    prompt,            \* value returned by the last build_prompt()
    ctxOp,             \* the ContextManager method that ran last
    \* VADProcessor.detect_speech_timestamps
    audio_data,        \* the mono signal read from the file
    file_sample_rate,  \* the sample rate soundfile reports for the file
    model_file_exists, \* whether settings.SILERO_VAD_MODEL_PATH exists
    vad_status,        \* "loaded", "returned", or the exception raised
    vad_segments,      \* VADResult.segments
    total_duration,    \* VADResult.total_duration, in samples (seconds * 16000)
    \* SegmentManager grouping
    max_duration,         \* self.max_duration
    min_silence_duration, \* self.min_silence_duration
    speech_segments,      \* the speech intervals handed to the grouper
    all_segments,         \* the full timeline handed to the grouper (<<>> for None)
    grp_status,           \* "input", "grouped" or "split"
    groups,               \* the list _group_speech_segments returns
    sub_segments,         \* the list _split_long_segment returns
    \* Pipeline.process_audio_file
    pc,                \* position of the run
    stop_set,          \* stop_event.is_set()
    input_exists,      \* the input file is on disk
    input_is_opus,     \* the input file has the suffix .opus
    converted_on_disk, \* the converted copy made by this run is on disk
    remove_after,      \* second component of _convert_audio's result
    n_groups,          \* number of groups the grouper makes of the VAD result
    segment_files,     \* group indices whose segment file is on disk
    combined_segments, \* group indices of the AudioSegments returned, in order
    seg_index,         \* i of the loop of _recognize_segments (from 1)
    results,           \* the list _recognize_segments builds
    asr_log,           \* the recognizer's own record of the calls it received
    progress,          \* percentages given to the progress callback, in order
    output_file,       \* content of the text file written, if written
    error,             \* why the run raised PipelineError
    ret,               \* the dictionary process_audio_file returns
    \* record of the calls of add_context
    added_texts,       \* the arguments add_context was called with, in order
    \* one recognize call of a recognition client
    asr,               \* the client's settings, its position and what it did
    \* the parsing of the responses of the recognition service
    parsed,            \* the last response, the result made of it, the calls so far
    \* SegmentManager.create_segments_from_vad, the loop over the groups
    mat,               \* the limits, the index of the next group, the segments made
    \* successive runs of process_audio_file on one Pipeline object
    runs,              \* which run this is, the history the run before it left
    \* the window that starts the runs, its dialogs and its worker threads
    gui                \* the start button, the modal dialog, the workers

ctxVars == <<max_tokens, scenario, context_history, prompt, ctxOp>>

vadVars == <<audio_data, file_sample_rate, model_file_exists, vad_status,
             vad_segments, total_duration>>

grpVars == <<max_duration, min_silence_duration, speech_segments, all_segments,
             grp_status, groups, sub_segments>>

pipeVars == <<pc, stop_set, input_exists, input_is_opus, converted_on_disk,
              remove_after, n_groups, segment_files, combined_segments, seg_index,
              results, asr_log, progress, output_file, error, ret>>

histVars == <<added_texts>>

asrVars == <<asr>>

parseVars == <<parsed>>

matVars == <<mat>>

runVars == <<runs>>

guiVars == <<gui>>

nonCtxVars == <<vadVars, grpVars, pipeVars, histVars, asrVars, parseVars, matVars, runVars, guiVars>>

nonVadVars == <<ctxVars, grpVars, pipeVars, histVars, asrVars, parseVars, matVars, runVars, guiVars>>

nonGrpVars == <<ctxVars, vadVars, pipeVars, histVars, asrVars, parseVars, matVars, runVars, guiVars>>

vars == <<ctxVars, vadVars, grpVars, pipeVars, histVars, asrVars, parseVars, matVars, runVars, guiVars>>

-----------------------------------------------------------------------------
(* Generic helpers *)

Max(a, b) == IF a >= b THEN a ELSE b

Min(a, b) == IF a <= b THEN a ELSE b

Rep(c, n) == [i \in 1..n |-> c]

Reverse(s) == [i \in 1..Len(s) |-> s[Len(s) + 1 - i]]

RECURSIVE Join(_, _)
\* sep.join(parts) for a sequence of texts
Join(sep, parts) ==
    IF Len(parts) = 0 THEN <<>>
    ELSE IF Len(parts) = 1 THEN parts[1]
    ELSE parts[1] \o sep \o Join(sep, Tail(parts))

IsSpace(c) == c \in {" ", "\n"}

\* str.strip(): drop leading and trailing whitespace
Strip(s) ==
    LET keep == {i \in DOMAIN s : ~IsSpace(s[i])}
    IN  IF keep = {} THEN <<>>
        ELSE LET first == CHOOSE i \in keep : \A j \in keep : i <= j
                 last  == CHOOSE i \in keep : \A j \in keep : j <= i
             IN  SubSeq(s, first, last)

-----------------------------------------------------------------------------
(* token_counter.count_tokens, method 'qwen' *)

\* [\u4e00-\u9fff]
ChineseChars == {"Z"}

\* [a-zA-Z]
Letters == {"a", "b"}

\* \d
Digits == {"1", "2"}

\* \w
WordChars == ChineseChars \cup Letters \cup Digits \cup {"_"}

\* [^\w\s\u4e00-\u9fff]
IsPunct(c) == c \notin WordChars /\ ~IsSpace(c)

\* len(re.findall(X+, text)): the number of maximal runs of characters of class
Runs(s, class) ==
    Cardinality({i \in DOMAIN s : s[i] \in class /\ (i = 1 \/ s[i - 1] \notin class)})

\* len(re.findall(X, text)): the number of characters of class
CountClass(s, class) == Cardinality({i \in DOMAIN s : s[i] \in class})

\* TokenCounter._count_qwen_tokens; int(n * 1.3), int(n * 1.2) and int(n * 0.7)
\* are the integer quotients below for every n the model reaches
CountTokens(text) ==
    IF Len(text) = 0 THEN 0
    ELSE LET chinese_chars == CountClass(text, ChineseChars)
             english_words == Runs(text, Letters)
             numbers       == Runs(text, Digits)
             digits        == CountClass(text, Digits)
             punctuation   == Cardinality({i \in DOMAIN text : IsPunct(text[i])})
             token_count   == (chinese_chars * 13) \div 10
                              + (english_words * 12) \div 10
                              + Max(numbers, (digits * 7) \div 10)
                              + punctuation
         IN  Max(1, IF token_count > 0 THEN token_count + 2 ELSE token_count)

-----------------------------------------------------------------------------
(* ContextManager *)

DefaultMaxTokens == 9000

ReservedTokens == 100

HistoryLimit == 10

\* the parts build_prompt and _control_length start from
ScenarioParts(scn) == IF Len(scn) > 0 THEN <<scn>> ELSE <<>>

RECURSIVE TakeRecentSkipping(_, _, _, _)
\* the loop of _control_length, were an entry that does not fit skipped
\* and the loop carried on with the older ones
TakeRecentSkipping(hist, i, current_tokens, remaining_tokens) ==
    IF i = 0 THEN <<>>
    ELSE LET text_tokens == CountTokens(hist[i])
         IN  IF current_tokens + text_tokens <= remaining_tokens
             THEN Append(TakeRecentSkipping(hist, i - 1, current_tokens + text_tokens,
                                            remaining_tokens), hist[i])
             ELSE TakeRecentSkipping(hist, i - 1, current_tokens, remaining_tokens)

RECURSIVE TakeRecent(_, _, _, _)
\* the loop of _control_length over reversed(context_history), from entry i down
TakeRecent(hist, i, current_tokens, remaining_tokens) ==
    IF i = 0 THEN <<>>
    ELSE LET text_tokens == CountTokens(hist[i])
         IN  IF current_tokens + text_tokens <= remaining_tokens
             THEN Append(TakeRecent(hist, i - 1, current_tokens + text_tokens,
                                    remaining_tokens), hist[i])
             ELSE <<>>

ControlLength(p, scn, hist, maxTok) ==
    IF CountTokens(p) <= maxTok THEN p
    ELSE LET base_parts       == ScenarioParts(scn)
             base_tokens      == CountTokens(Join(<<"\n">>, base_parts))
             remaining_tokens == maxTok - base_tokens - ReservedTokens
             context_parts    ==
                 IF remaining_tokens > 0 /\ Len(hist) > 0
                 THEN TakeRecent(hist, Len(hist), 0, remaining_tokens)
                 ELSE <<>>
             parts == IF Len(context_parts) > 0
                      THEN Append(base_parts, Join(<<" ">>, context_parts))
                      ELSE base_parts
         IN  Join(<<"\n">>, parts)

BuildPrompt(scn, hist, maxTok) ==
    LET parts == IF Len(hist) > 0
                 THEN Append(ScenarioParts(scn), Join(<<" ">>, hist))
                 ELSE ScenarioParts(scn)
    IN  ControlLength(Join(<<"\n">>, parts), scn, hist, maxTok)

\* context_history after build_prompt, were the history used up by the call
HistoryAfterBuildConsumed(hist) == <<>>

\* context_history after build_prompt: the call and _control_length read the
\* list (join, reversed) and assign nothing
HistoryAfterBuild(hist) == hist

\* context_history after add_context(text), were no entry ever dropped
AddContextResultUnbounded(hist, text) ==
    IF Len(Strip(text)) > 0 THEN Append(hist, Strip(text)) ELSE hist

\* context_history after add_context(text)
AddContextResult(hist, text) ==
    IF Len(Strip(text)) > 0
    THEN LET h == Append(hist, Strip(text))
         IN  IF Len(h) > HistoryLimit
             THEN SubSeq(h, Len(h) - HistoryLimit + 1, Len(h))
             ELSE h
    ELSE hist

(* Inputs of the ContextManager specification *)

TestMaxTokens == 120

TextA == Rep("Z", 10)

TextB == <<"a", "b", " ", "b", ",", "1", "2", "1", "_">> \o Rep("Z", 9)

TextInputs == {TextA, TextB, <<" ">> \o TextA \o <<" ", "\n">>, <<" ", "\n">>, <<>>}

ScenarioShort == <<"a", "b", ",", " ", "Z", "Z">>

ScenarioHuge == Rep("Z", 120)

ScenarioInputs == {<<>>, ScenarioShort, <<" ">> \o ScenarioShort \o <<"\n">>, ScenarioHuge}

CtxConstructed(maxTok) ==
    /\ max_tokens = maxTok
    /\ scenario = <<>>
    /\ context_history = <<>>
    /\ prompt = <<>>
    /\ ctxOp = "init"

\* the VAD variables of a specification that runs no detection
VadUnused ==
    /\ audio_data = [blocks |-> <<>>, tail |-> 0]
    /\ file_sample_rate = 0
    /\ model_file_exists = FALSE
    /\ vad_status = "unused"
    /\ vad_segments = <<>>
    /\ total_duration = 0

\* the grouper variables of a specification that groups nothing
GrpUnused ==
    /\ max_duration = 0
    /\ min_silence_duration = 0
    /\ speech_segments = <<>>
    /\ all_segments = <<>>
    /\ grp_status = "unused"
    /\ groups = <<>>
    /\ sub_segments = <<>>

NoReturn == [text_content |-> <<>>, rate_num |-> 0, rate_den |-> 1,
             combined_segments_count |-> 0]

NoOutput == [written |-> FALSE, text |-> <<>>]

\* the run variables before process_audio_file is entered
RunNotStarted ==
    /\ stop_set = FALSE
    /\ converted_on_disk = FALSE
    /\ remove_after = FALSE
    /\ n_groups = 0
    /\ segment_files = {}
    /\ combined_segments = <<>>
    /\ seg_index = 0
    /\ results = <<>>
    /\ asr_log = <<>>
    /\ progress = <<>>
    /\ output_file = NoOutput
    /\ error = "none"
    /\ ret = NoReturn

\* the record of a specification that keeps none
HistUnused == added_texts = <<>>

\* the recognition client of a specification that makes no recognize call
AsrUnused ==
    asr = [client |-> "unused", max_retries |-> 0, retry_delay |-> 0,
           file_valid |-> FALSE, apc |-> "unused", attempt |-> 0,
           trace |-> <<>>]

\* the parsing record of a specification that parses no response
ParseUnused ==
    parsed = [client |-> "unused", response |-> [status |-> 0, parts |-> <<>>],
              result |-> [success |-> FALSE, text |-> <<>>], calls |-> 0]

\* the segment list of a specification that makes no segment
MatUnused ==
    mat = [max_duration |-> 0, max_size |-> 0, i |-> 0, audio_segments |-> <<>>]

\* the run record of a specification that runs no pipeline
RunsUnused == runs = [which |-> "none", carried |-> <<>>]

\* the window of a specification that has none
GuiUnused ==
    gui = [window |-> "none", start_enabled |-> FALSE, modal |-> "unused",
           owner |-> 0, stop_events |-> <<>>, workers |-> <<>>]

\* the first call of process_audio_file on a Pipeline object
FirstRun == runs = [which |-> "first", carried |-> <<>>]

\* the pipeline variables of a specification that runs no pipeline
PipeUnused ==
    /\ pc = "unused"
    /\ input_exists = FALSE
    /\ input_is_opus = FALSE
    /\ RunNotStarted

InitCtx ==
    /\ \E m \in {TestMaxTokens, TestMaxTokens + 20} : CtxConstructed(m)
    /\ VadUnused
    /\ GrpUnused
    /\ PipeUnused
    /\ HistUnused
    /\ AsrUnused
    /\ ParseUnused
    /\ MatUnused
    /\ RunsUnused
    /\ GuiUnused

SetScenario(s) ==
    /\ scenario' = Strip(s)
    /\ prompt' = <<>>
    /\ ctxOp' = "set_scenario"
    /\ UNCHANGED <<max_tokens, context_history>>
    /\ UNCHANGED nonCtxVars

AddContext(text) ==
    /\ context_history' = AddContextResult(context_history, text)
    /\ prompt' = <<>>
    /\ ctxOp' = "add_context"
    /\ UNCHANGED <<max_tokens, scenario>>
    /\ UNCHANGED nonCtxVars

ClearContext ==
    /\ context_history' = <<>>
    /\ prompt' = <<>>
    /\ ctxOp' = "clear_context"
    /\ UNCHANGED <<max_tokens, scenario>>
    /\ UNCHANGED nonCtxVars

CallBuildPrompt ==
    /\ prompt' = BuildPrompt(scenario, context_history, max_tokens)
    /\ ctxOp' = "build_prompt"
    /\ context_history' = HistoryAfterBuild(context_history)
    /\ UNCHANGED <<max_tokens, scenario>>
    /\ UNCHANGED nonCtxVars

NextCtx ==
    \/ \E s \in ScenarioInputs : SetScenario(s)
    \/ \E t \in TextInputs : AddContext(t)
    \/ ClearContext
    \/ CallBuildPrompt

SpecCtx == InitCtx /\ [][NextCtx]_vars

(* add_context alone, with the record of its arguments *)

MaxAdds == 12

AddInputs == {<<"Z">>, <<" ", "a", " ", "b", "\n">>, <<" ", "\n">>}

InitHist ==
    /\ CtxConstructed(DefaultMaxTokens)
    /\ VadUnused
    /\ GrpUnused
    /\ PipeUnused
    /\ AsrUnused
    /\ ParseUnused
    /\ MatUnused
    /\ RunsUnused
    /\ GuiUnused
    /\ added_texts = <<>>

AddContextLogged(text) ==
    /\ Len(added_texts) < MaxAdds
    /\ added_texts' = Append(added_texts, text)
    /\ context_history' = AddContextResult(context_history, text)
    /\ prompt' = <<>>
    /\ ctxOp' = "add_context"
    /\ UNCHANGED <<max_tokens, scenario>>
    /\ UNCHANGED <<vadVars, grpVars, pipeVars, asrVars, parseVars, matVars, runVars, guiVars>>

NextHist == \E t \in AddInputs : AddContextLogged(t)

SpecHist == InitHist /\ [][NextHist]_vars

-----------------------------------------------------------------------------
(* VADProcessor *)
(* Times are kept in samples: a time of t seconds is the integer 16000 * t, *)
(* so every comparison of two times is the comparison the code makes.       *)
(* The signal is given by the mean squared amplitude of each consecutive    *)
(* chunk of hop_size samples, in units of 0.001, and the number of samples  *)
(* left after the last whole chunk; a window is five whole chunks.          *)

SampleRate == 16000

\* int(0.5 * self.sample_rate)
window_size == 8000

\* int(0.1 * self.sample_rate)
hop_size == 1600

\* the energy threshold 0.001, in units of 0.001
EnergyThreshold == 1

\* self.threshold = 0.5 and the probabilities 1.0 and 0.0, in tenths
VadThreshold == 5

ProbSpeech == 10

\* self.min_speech_duration = 0.3 s, in tenths of a second
MinSpeechDuration == 3

AudioLen(a) == Len(a.blocks) * hop_size + a.tail

\* range(0, len(audio_data) - window_size + 1, hop_size), as a count
NumWindows(a) ==
    IF AudioLen(a) >= window_size
    THEN (AudioLen(a) - window_size) \div hop_size + 1
    ELSE 0

RECURSIVE SumBlocks(_, _, _)
SumBlocks(blocks, from, to) ==
    IF from > to THEN 0 ELSE blocks[from] + SumBlocks(blocks, from + 1, to)

ChunksPerWindow == window_size \div hop_size

\* prob of window number w (from 1): np.mean(window ** 2) > 0.001
WindowProb(a, w) ==
    IF SumBlocks(a.blocks, w, w + ChunksPerWindow - 1) > EnergyThreshold * ChunksPerWindow
    THEN ProbSpeech
    ELSE 0

SpeechProbs(a) == [w \in 1..NumWindows(a) |-> WindowProb(a, w)]

\* the test of the sample rate, were any rate taken (and resampled)
SampleRateAcceptedAny(rate) == TRUE

\* not 'sample_rate != self.sample_rate'
SampleRateAccepted(rate) == rate = SampleRate

\* (speech_end - speech_start) / self.sample_rate >= self.min_speech_duration
LongEnough(speech_start, speech_end) ==
    (speech_end - speech_start) * 10 >= MinSpeechDuration * SampleRate

RECURSIVE ScanProbs(_, _, _, _, _)
\* the loop over enumerate(speech_probs), from window i on
ScanProbs(probs, i, in_speech, speech_start, timestamps) ==
    IF i > Len(probs)
    THEN [in_speech |-> in_speech, speech_start |-> speech_start,
          timestamps |-> timestamps]
    ELSE LET time_pos == (i - 1) * hop_size
         IN  IF probs[i] > VadThreshold /\ ~in_speech
             THEN ScanProbs(probs, i + 1, TRUE, time_pos, timestamps)
             ELSE IF probs[i] <= VadThreshold /\ in_speech
             THEN ScanProbs(probs, i + 1, FALSE, speech_start,
                            IF LongEnough(speech_start, time_pos)
                            THEN Append(timestamps,
                                        [start |-> speech_start, end |-> time_pos])
                            ELSE timestamps)
             ELSE ScanProbs(probs, i + 1, in_speech, speech_start, timestamps)

DetectWithOnnx(a) ==
    LET r == ScanProbs(SpeechProbs(a), 1, FALSE, 0, <<>>)
    IN  IF r.in_speech /\ LongEnough(r.speech_start, AudioLen(a))
        THEN Append(r.timestamps, [start |-> r.speech_start, end |-> AudioLen(a)])
        ELSE r.timestamps

VADSegment(s, e, speech) == [start_time |-> s, end_time |-> e, is_speech |-> speech]

Duration(seg) == seg.end_time - seg.start_time

RECURSIVE InsertByStart(_, _)
\* seg put into the sorted list after every element that does not start later
InsertByStart(sorted, seg) ==
    IF Len(sorted) = 0 THEN <<seg>>
    ELSE IF sorted[Len(sorted)].start_time <= seg.start_time THEN Append(sorted, seg)
    ELSE Append(InsertByStart(SubSeq(sorted, 1, Len(sorted) - 1), seg),
                sorted[Len(sorted)])

RECURSIVE SortByStart(_)
\* list.sort(key=lambda x: x.start_time) / sorted(...): stable
SortByStart(segs) ==
    IF Len(segs) = 0 THEN <<>>
    ELSE InsertByStart(SortByStart(SubSeq(segs, 1, Len(segs) - 1)), segs[Len(segs)])

FillSilenceSegments(speech, total) ==
    LET sorted == SortByStart(speech)
        n      == Len(sorted)
        head   == IF n > 0 /\ sorted[1].start_time > 0
                  THEN <<VADSegment(0, sorted[1].start_time, FALSE)>>
                  ELSE <<>>
        gap(i) == IF sorted[i + 1].start_time > sorted[i].end_time
                  THEN <<VADSegment(sorted[i].end_time, sorted[i + 1].start_time, FALSE)>>
                  ELSE <<>>
        RECURSIVE Gaps(_)
        Gaps(i) == IF i >= n THEN <<>> ELSE gap(i) \o Gaps(i + 1)
        tail   == IF n > 0 /\ sorted[n].end_time < total
                  THEN <<VADSegment(sorted[n].end_time, total, FALSE)>>
                  ELSE <<>>
    IN  speech \o head \o Gaps(1) \o tail

ConvertToSegments(timestamps, total) ==
    SortByStart(FillSilenceSegments(
        [i \in 1..Len(timestamps) |->
            VADSegment(timestamps[i].start, timestamps[i].end, TRUE)],
        total))

\* VADResult.speech_segments
SpeechSegments(segs) == SelectSeq(segs, LAMBDA x : x.is_speech)

\* VADResult.silence_segments
SilenceSegments(segs) == SelectSeq(segs, LAMBDA x : ~x.is_speech)

(* Inputs of the VAD specification *)

MaxBlocks == 9

EnergyLevels == {0, 2, 6}

TailLengths == {0, hop_size \div 2}

RECURSIVE BlockSeqs(_)
BlockSeqs(n) ==
    IF n = 0 THEN {<<>>}
    ELSE LET shorter == BlockSeqs(n - 1)
         IN  shorter \cup {Append(b, e) : b \in {x \in shorter : Len(x) = n - 1},
                                          e \in EnergyLevels}

AudioInputs == {[blocks |-> b, tail |-> t] : b \in BlockSeqs(MaxBlocks), t \in TailLengths}

\* the ContextManager variables of a specification that uses no context
CtxUnused == CtxConstructed(0)

InitVad ==
    /\ audio_data \in AudioInputs
    /\ file_sample_rate \in {SampleRate, SampleRate \div 2}
    /\ model_file_exists \in BOOLEAN
    /\ vad_status = "loaded"
    /\ vad_segments = <<>>
    /\ total_duration = 0
    /\ CtxUnused
    /\ GrpUnused
    /\ PipeUnused
    /\ HistUnused
    /\ AsrUnused
    /\ ParseUnused
    /\ MatUnused
    /\ RunsUnused
    /\ GuiUnused

DetectSpeechTimestamps ==
    /\ vad_status = "loaded"
    /\ IF ~model_file_exists
       THEN /\ vad_status' = "FileNotFoundError"
            /\ UNCHANGED <<vad_segments, total_duration>>
       ELSE IF ~SampleRateAccepted(file_sample_rate)
       THEN /\ vad_status' = "ValueError"
            /\ UNCHANGED <<vad_segments, total_duration>>
       ELSE /\ vad_status' = "returned"
            /\ total_duration' = AudioLen(audio_data)
            /\ vad_segments' = ConvertToSegments(DetectWithOnnx(audio_data),
                                                 AudioLen(audio_data))
    /\ UNCHANGED <<audio_data, file_sample_rate, model_file_exists>>
    /\ UNCHANGED nonVadVars

NextVad == DetectSpeechTimestamps

SpecVad == InitVad /\ [][NextVad]_vars

-----------------------------------------------------------------------------
(* SegmentManager: grouping and splitting *)
(* Times are integers in one unit; max_duration and min_silence_duration   *)
(* are in the same unit.  The end points of the intervals given as input   *)
(* are even, so the midpoint of a silence is an integer.                    *)

\* not all_segments: true of None and of the empty list alike, so the model
\* gives an absent timeline as the empty list
Falsy(list) == Len(list) = 0

RECURSIVE SimpleSplitFrom(_, _, _)
\* the while loop of _simple_time_split from current_start on
SimpleSplitFrom(segment, current_start, maxD) ==
    IF current_start < segment.end_time
    THEN LET current_end == Min(current_start + maxD, segment.end_time)
         IN  <<VADSegment(current_start, current_end, segment.is_speech)>>
             \o SimpleSplitFrom(segment, current_end, maxD)
    ELSE <<>>

\* a plausible slip: a remainder shorter than max_duration is discarded
SimpleTimeSplitFullOnly(segment, maxD) ==
    SelectSeq(SimpleSplitFrom(segment, segment.start_time, maxD),
              LAMBDA x : x.end_time - x.start_time = maxD)

SimpleTimeSplit(segment, maxD) == SimpleSplitFrom(segment, segment.start_time, maxD)

\* a plausible slip: a silence qualifies as soon as it ends within the interval
QualifyingSilencesEndingInside(segment, all, minSil) ==
    SelectSeq(all, LAMBDA x : /\ ~x.is_speech
                              /\ x.end_time <= segment.end_time
                              /\ Duration(x) >= minSil)

\* the silences _smart_split_at_silence considers, in the order of all_segments
QualifyingSilences(segment, all, minSil) ==
    SelectSeq(all, LAMBDA x : /\ ~x.is_speech
                              /\ x.start_time >= segment.start_time
                              /\ x.end_time <= segment.end_time
                              /\ Duration(x) >= minSil)

\* potential_duration >= self.max_duration * 0.8
ReachesEightyPercent(potential_duration, maxD) == potential_duration * 10 >= maxD * 8

\* a plausible slip: the cut placed where the silence starts
SplitAtSilenceStart(silence) == silence.start_time

\* (silence.start_time + silence.end_time) / 2
SplitPoint(silence) == (silence.start_time + silence.end_time) \div 2

RECURSIVE SmartLoop(_, _, _, _, _, _)
\* the for loop of _smart_split_at_silence from silence number k on; the result
\* is the state of the loop when it ends or breaks
SmartLoop(silences, k, segment, current_start, subs, maxD) ==
    IF k > Len(silences)
    THEN [current_start |-> current_start, subs |-> subs]
    ELSE IF ReachesEightyPercent(silences[k].start_time - current_start, maxD)
    THEN LET split_point == SplitPoint(silences[k])
             subs2 == Append(subs, VADSegment(current_start, split_point,
                                              segment.is_speech))
         IN  IF segment.end_time - split_point <= maxD
             THEN [current_start |-> split_point, subs |-> subs2]
             ELSE SmartLoop(silences, k + 1, segment, split_point, subs2, maxD)
    ELSE SmartLoop(silences, k + 1, segment, current_start, subs, maxD)

SmartSplitAtSilence(segment, all, maxD, minSil) ==
    LET silences == QualifyingSilences(segment, all, minSil)
    IN  IF Len(silences) = 0 THEN SimpleTimeSplit(segment, maxD)
        ELSE LET r == SmartLoop(silences, 1, segment, segment.start_time, <<>>, maxD)
             IN  IF r.current_start < segment.end_time
                 THEN Append(r.subs, VADSegment(r.current_start, segment.end_time,
                                                segment.is_speech))
                 ELSE r.subs

SplitLongSegment(segment, all, maxD, minSil) ==
    IF Falsy(all) THEN SimpleTimeSplit(segment, maxD)
    ELSE SmartSplitAtSilence(segment, all, maxD, minSil)

\* the fragments of a split interval, were they put into one group
FragmentsAsOneGroup(segs) == <<segs>>

\* [[sub_segment] for sub_segment in sub_segments]
Singletons(segs) == [i \in 1..Len(segs) |-> <<segs[i]>>]

\* a plausible slip: the span measured from the start of the last interval
FitsInGroupFromLast(current_group, segment, maxD) ==
    segment.end_time - current_group[Len(current_group)].start_time <= maxD

\* total_duration = segment.end_time - current_group[0].start_time;
\* total_duration <= self.max_duration
FitsInGroup(current_group, segment, maxD) ==
    segment.end_time - current_group[1].start_time <= maxD

RECURSIVE GroupLoop(_, _, _, _, _, _, _)
\* the for loop of _group_speech_segments from sorted segment number i on,
\* followed by the closing of the last group
GroupLoop(sorted, i, grps, current_group, all, maxD, minSil) ==
    IF i > Len(sorted)
    THEN IF Len(current_group) > 0 THEN Append(grps, current_group) ELSE grps
    ELSE LET segment == sorted[i]
         IN  IF Duration(segment) > maxD
             THEN GroupLoop(sorted, i + 1,
                            (IF Len(current_group) > 0
                             THEN Append(grps, current_group) ELSE grps)
                            \o Singletons(SplitLongSegment(segment, all, maxD, minSil)),
                            <<>>, all, maxD, minSil)
             ELSE IF Len(current_group) > 0
             THEN IF FitsInGroup(current_group, segment, maxD)
                  THEN GroupLoop(sorted, i + 1, grps, Append(current_group, segment),
                                 all, maxD, minSil)
                  ELSE GroupLoop(sorted, i + 1, Append(grps, current_group),
                                 <<segment>>, all, maxD, minSil)
             ELSE GroupLoop(sorted, i + 1, grps, <<segment>>, all, maxD, minSil)

\* the grouping, were the intervals taken in the order given
GroupSpeechSegmentsUnsorted(speech, all, maxD, minSil) ==
    IF Len(speech) = 0 THEN <<>>
    ELSE GroupLoop(speech, 1, <<>>, <<>>, all, maxD, minSil)

GroupSpeechSegments(speech, all, maxD, minSil) ==
    IF Len(speech) = 0 THEN <<>>
    ELSE GroupLoop(SortByStart(speech), 1, <<>>, <<>>, all, maxD, minSil)

(* Inputs of the grouper specification *)
(* The caller builds the speech list and then the timeline, which holds    *)
(* the speech intervals and silences in time order as a VADResult does.    *)
(* The grouper is then called with the timeline or without one, and with   *)
(* the speech list in time order or in reverse order.                      *)

TestMaxDuration == 5

TestMinSilence == 4

MaxTime == 14

MaxIntervals == 3

MaxSpeech == MaxIntervals

MaxSilences == MaxIntervals - 1

Grid == {t \in 0..MaxTime : t % 2 = 0}

Intervals(speech) ==
    {VADSegment(p[1], p[2], speech) : p \in {q \in Grid \X Grid : q[1] < q[2]}}

InitGrp ==
    /\ max_duration = TestMaxDuration
    /\ min_silence_duration = TestMinSilence
    /\ speech_segments = <<>>
    /\ all_segments = <<>>
    /\ grp_status = "input"
    /\ groups = <<>>
    /\ sub_segments = <<>>
    /\ CtxUnused
    /\ VadUnused
    /\ PipeUnused
    /\ HistUnused
    /\ AsrUnused
    /\ ParseUnused
    /\ MatUnused
    /\ RunsUnused
    /\ GuiUnused

\* the caller adds a speech interval to the input
AddSpeechInput(seg) ==
    /\ grp_status = "input"
    /\ Len(speech_segments) < MaxSpeech
    /\ Len(all_segments) = Len(speech_segments)
    /\ Len(speech_segments) > 0 =>
           speech_segments[Len(speech_segments)].start_time <= seg.start_time
    /\ speech_segments' = Append(speech_segments, seg)
    /\ all_segments' = SortByStart(Append(all_segments, seg))
    /\ UNCHANGED <<max_duration, min_silence_duration, grp_status, groups,
                   sub_segments>>
    /\ UNCHANGED nonGrpVars

\* the caller adds a silence interval to the timeline
AddSilenceInput(seg) ==
    /\ grp_status = "input"
    /\ Len(speech_segments) > 0
    /\ Len(all_segments) < MaxIntervals
    /\ Len(all_segments) - Len(speech_segments) < MaxSilences
    /\ all_segments' = SortByStart(Append(all_segments, seg))
    /\ UNCHANGED <<max_duration, min_silence_duration, speech_segments,
                   grp_status, groups, sub_segments>>
    /\ UNCHANGED nonGrpVars

\* SegmentManager._group_speech_segments(speech_segments, all_segments)
CallGroupSpeechSegments(withTimeline, reversed) ==
    /\ grp_status = "input"
    /\ all_segments' = IF withTimeline THEN all_segments ELSE <<>>
    /\ speech_segments' = IF reversed THEN Reverse(speech_segments)
                                      ELSE speech_segments
    /\ groups' = GroupSpeechSegments(speech_segments', all_segments',
                                     max_duration, min_silence_duration)
    /\ grp_status' = "grouped"
    /\ UNCHANGED <<max_duration, min_silence_duration, sub_segments>>
    /\ UNCHANGED nonGrpVars

\* SegmentManager._split_long_segment(segment, all_segments) on an interval
\* longer than max_duration
CallSplitLongSegment(withTimeline) ==
    /\ grp_status = "input"
    /\ Len(speech_segments) = 1
    /\ Duration(speech_segments[1]) > max_duration
    /\ all_segments' = IF withTimeline THEN all_segments ELSE <<>>
    /\ sub_segments' = SplitLongSegment(speech_segments[1], all_segments',
                                        max_duration, min_silence_duration)
    /\ grp_status' = "split"
    /\ UNCHANGED <<max_duration, min_silence_duration, speech_segments, groups>>
    /\ UNCHANGED nonGrpVars

NextGrp ==
    \/ \E seg \in Intervals(TRUE) : AddSpeechInput(seg)
    \/ \E seg \in Intervals(FALSE) : AddSilenceInput(seg)
    \/ \E withTimeline \in BOOLEAN, reversed \in BOOLEAN :
          CallGroupSpeechSegments(withTimeline, reversed)
    \/ \E withTimeline \in BOOLEAN : CallSplitLongSegment(withTimeline)

SpecGrp == InitGrp /\ [][NextGrp]_vars

-----------------------------------------------------------------------------
(* Pipeline *)
(* One run of process_audio_file on a Pipeline object.  The VAD result is   *)
(* kept as the number of groups the grouper makes of it (0: no speech); a   *)
(* segment is kept as its group index, which is the number in its id and in *)
(* the name of its file.  The stop event is set by another thread, at any   *)
(* moment of the run.                                                       *)

MaxGroups == 12

\* the numbers of groups a VAD result of a run gives: few, or many enough
\* for the history to overflow
GroupCounts == {1, 2, 3, MaxGroups}

\* how many steps of one run may fail among the extractions, the recognition
\* calls and the removals of the cleanup
MaxFaults == 2

\* the stripped, non-blank text the recognizer returns for the segment of group g
SegmentText(g) == Rep("Z", g + 1)

\* percentage handed to the callback by a stage of process_audio_file
StagePercent(p) == [num |-> p, den |-> 1]

\* a plausible slip: the share of the segments done before segment i
SegmentPercentBefore(i, total_segments) ==
    [num |-> 40 * total_segments + 50 * (i - 1), den |-> total_segments]

\* 40 + (i / total_segments) * 50, as a quotient
SegmentPercent(i, total_segments) ==
    [num |-> 40 * total_segments + 50 * i, den |-> total_segments]

\* check_stop, were it to let every run pass
CheckStopNever(stop) == FALSE

\* check_stop raises exactly when the event is set
CheckStop(stop) == stop

\* the test at the top of the loop of _recognize_segments
LoopStopCheckNever(stop) == FALSE

LoopStopCheck(stop) == stop

\* "not vad_result.speech_segments", were it never true
NoSpeechDetectedNever(n) == FALSE

\* not vad_result.speech_segments, of a VAD result that gives n groups
NoSpeechDetected(n) == n = 0

\* the indices enumerate() gives the groups
GroupIndices(n) == [k \in 1 .. n |-> k - 1]

\* the entry _recognize_segments appends for a segment
ResultEntry(id, outcome, text) ==
    IF outcome = "ok"
    THEN [segment_id |-> id, success |-> TRUE, has_text |-> TRUE, text |-> text]
    ELSE [segment_id |-> id, success |-> FALSE, has_text |-> FALSE, text |-> <<>>]

\* context_history after the call for a segment ended
HistoryAfter(hist, outcome, text) ==
    IF outcome = "ok" THEN AddContextResult(hist, text) ELSE hist

\* whether the loop goes on to segment i + 1, giving up after a failure
LoopContinuesIfOk(i, total_segments, outcome) ==
    i < total_segments /\ outcome = "ok"

\* whether the loop goes on to segment i + 1 after segment i
LoopContinues(i, total_segments, outcome) == i < total_segments

RECURSIVE TextsOf(_)
\* [r['text'] for r in results if r['success']]
TextsOf(res) ==
    IF Len(res) = 0 THEN <<>>
    ELSE IF res[Len(res)].success
         THEN Append(TextsOf(SubSeq(res, 1, Len(res) - 1)), res[Len(res)].text)
         ELSE TextsOf(SubSeq(res, 1, Len(res) - 1))

\* " ".join over every entry, a failed one giving the empty text
TextContentOfAll(res) == Join(<<" ">>, [k \in 1 .. Len(res) |-> res[k].text])

\* " ".join of the successful texts
TextContent(res) == Join(<<" ">>, TextsOf(res))

SuccessCount(res) == Cardinality({k \in 1 .. Len(res) : res[k].success})

\* the dictionary process_audio_file returns
ResultDict(res, segments) ==
    [text_content |-> TextContent(res),
     rate_num |-> IF Len(res) > 0 THEN SuccessCount(res) ELSE 0,
     rate_den |-> IF Len(res) > 0 THEN Len(res) ELSE 1,
     combined_segments_count |-> Len(segments)]

\* _convert_audio, were its result always marked as a temporary file
ConvertResultAlwaysTemp(isOpus) ==
    [path |-> IF isOpus THEN "input" ELSE "converted", remove_after |-> TRUE]

\* the pair _convert_audio returns: an .opus input is returned as it is and
\* is not to be removed, a converted copy is
ConvertResult(isOpus) ==
    [path |-> IF isOpus THEN "input" ELSE "converted", remove_after |-> ~isOpus]

\* os.path.exists of the path _convert_audio returned
PathExists(path, inputExists, convertedExists) ==
    IF path = "input" THEN inputExists ELSE convertedExists

\* what _cleanup_temp_files removes, in order: -1 is converted_path
RemovalList(removeConverted, convertedExists, segments, files) ==
    (IF removeConverted /\ convertedExists THEN <<-1>> ELSE <<>>)
    \o SelectSeq(segments, LAMBDA g : g \in files)

Removed(list, k) == {list[j] : j \in 1 .. k}

\* failures of the run so far: groups without a segment and failed calls
Faults ==
    (n_groups - Len(combined_segments))
    + Cardinality({k \in 1 .. Len(results) : ~results[k].success})

\* the except clause of the loop, were it to let the exception of a failed
\* call pass
SegmentExceptionEscapesLoop(outcome) == outcome = "raise"

\* 'except Exception' in the loop of _recognize_segments catches whatever
\* the call raises: nothing leaves the loop
SegmentExceptionEscapes(outcome) == FALSE

\* an exception noted and passed over, the run going on to step 5
RaiseSwallowed(reason) ==
    /\ pc' = "step5"
    /\ error' = reason

\* an exception leaves the try block: the except clause raises PipelineError
Raise(reason) ==
    /\ pc' = "raised"
    /\ error' = reason

\* the message of the PipelineError, were the cause left out of it
ErrorMessageGeneric(reason) == <<"processing failed">>

\* error_msg: a fixed prefix and str(e)
ErrorMessage(reason) == <<"processing failed: ", reason>>

\* what the caller of process_audio_file gets
Outcome ==
    IF pc = "returned" THEN [kind |-> "result", type |-> "dict", message |-> <<>>]
    ELSE IF pc = "raised"
         THEN [kind |-> "exception", type |-> "PipelineError",
               message |-> ErrorMessage(error)]
         ELSE [kind |-> "running", type |-> "none", message |-> <<>>]

Init ==
    /\ max_tokens = DefaultMaxTokens
    /\ scenario \in {<<>>, ScenarioShort}
    /\ context_history = <<>>
    /\ prompt = <<>>
    /\ ctxOp = "init"
    /\ VadUnused
    /\ GrpUnused
    /\ pc = "constructed"
    /\ input_exists \in BOOLEAN
    /\ input_is_opus \in BOOLEAN
    /\ RunNotStarted
    /\ HistUnused
    /\ AsrUnused
    /\ ParseUnused
    /\ MatUnused
    /\ FirstRun
    /\ GuiUnused

\* the GUI thread sets the stop event
SetStop ==
    /\ pc \notin {"unused", "returned", "raised"}
    /\ ~stop_set
    /\ stop_set' = TRUE
    /\ UNCHANGED <<pc, input_exists, input_is_opus, converted_on_disk, remove_after,
                   n_groups, segment_files, combined_segments, seg_index, results,
                   asr_log, progress, output_file, error, ret>>
    /\ UNCHANGED <<ctxVars, vadVars, grpVars, histVars, asrVars, parseVars, matVars, runVars, guiVars>>

StartRun ==
    /\ pc = "constructed"
    /\ IF ~input_exists
       THEN Raise("input_missing") /\ UNCHANGED progress
       ELSE /\ pc' = "step1"
            /\ progress' = Append(progress, StagePercent(0))
            /\ UNCHANGED error
    /\ UNCHANGED <<stop_set, input_exists, input_is_opus, converted_on_disk,
                   remove_after, n_groups, segment_files, combined_segments,
                   seg_index, results, asr_log, output_file, ret>>
    /\ UNCHANGED <<ctxVars, vadVars, grpVars, histVars, asrVars, parseVars, matVars, runVars, guiVars>>

Step1Convert ==
    /\ pc = "step1"
    /\ IF CheckStop(stop_set)
       THEN Raise("cancelled") /\ UNCHANGED <<progress, converted_on_disk, remove_after>>
       ELSE /\ progress' = Append(progress, StagePercent(10))
            /\ IF input_is_opus
               THEN /\ pc' = "step2"
                    /\ remove_after' = ConvertResult(TRUE).remove_after
                    /\ UNCHANGED <<converted_on_disk, error>>
               ELSE \/ /\ pc' = "step2"
                       /\ converted_on_disk' = TRUE
                       /\ remove_after' = ConvertResult(FALSE).remove_after
                       /\ UNCHANGED error
                    \/ /\ Raise("conversion_failed")
                       /\ UNCHANGED <<converted_on_disk, remove_after>>
    /\ UNCHANGED <<stop_set, input_exists, input_is_opus, n_groups, segment_files,
                   combined_segments, seg_index, results, asr_log, output_file, ret>>
    /\ UNCHANGED <<ctxVars, vadVars, grpVars, histVars, asrVars, parseVars, matVars, runVars, guiVars>>

Step2Vad ==
    /\ pc = "step2"
    /\ IF CheckStop(stop_set)
       THEN Raise("cancelled") /\ UNCHANGED <<progress, n_groups, file_sample_rate>>
       ELSE /\ progress' = Append(progress, StagePercent(20))
            /\ \E rate \in {SampleRate, SampleRate \div 2} :
                  /\ file_sample_rate' = rate
                  /\ IF ~SampleRateAccepted(rate)
                     THEN Raise("vad_failed") /\ UNCHANGED n_groups
                     ELSE \/ Raise("vad_failed") /\ UNCHANGED n_groups
                          \/ \E n \in {0} \cup GroupCounts :
                               /\ n_groups' = n
                               /\ IF NoSpeechDetected(n)
                                  THEN Raise("no_speech")
                                  ELSE pc' = "step3" /\ UNCHANGED error
    /\ UNCHANGED <<stop_set, input_exists, input_is_opus, converted_on_disk,
                   remove_after, segment_files, combined_segments, seg_index,
                   results, asr_log, output_file, ret>>
    /\ UNCHANGED <<audio_data, model_file_exists, vad_status, vad_segments,
                   total_duration>>
    /\ UNCHANGED <<ctxVars, grpVars, histVars, asrVars, parseVars, matVars, runVars, guiVars>>

Step3Segments ==
    /\ pc = "step3"
    /\ IF CheckStop(stop_set)
       THEN Raise("cancelled") /\ UNCHANGED <<progress, segment_files, combined_segments>>
       ELSE /\ progress' = Append(progress, StagePercent(30))
            /\ \E failed \in SUBSET (0 .. n_groups - 1) :
                   /\ Cardinality(failed) <= MaxFaults
                   /\ \E left \in SUBSET failed :
                          /\ combined_segments' =
                                 SelectSeq(GroupIndices(n_groups), LAMBDA g : g \notin failed)
                          /\ segment_files' = ((0 .. n_groups - 1) \ failed) \cup left
            /\ pc' = "step4"
            /\ UNCHANGED error
    /\ UNCHANGED <<stop_set, input_exists, input_is_opus, converted_on_disk,
                   remove_after, n_groups, seg_index, results, asr_log,
                   output_file, ret>>
    /\ UNCHANGED <<ctxVars, vadVars, grpVars, histVars, asrVars, parseVars, matVars, runVars, guiVars>>

Step4Begin ==
    /\ pc = "step4"
    /\ IF CheckStop(stop_set)
       THEN Raise("cancelled") /\ UNCHANGED <<progress, seg_index>>
       ELSE /\ progress' = Append(progress, StagePercent(40))
            /\ UNCHANGED error
            /\ IF Len(combined_segments) = 0
               THEN pc' = "step5" /\ UNCHANGED seg_index
               ELSE pc' = "rec_check" /\ seg_index' = 1
    /\ UNCHANGED <<stop_set, input_exists, input_is_opus, converted_on_disk,
                   remove_after, n_groups, segment_files, combined_segments,
                   results, asr_log, output_file, ret>>
    /\ UNCHANGED <<ctxVars, vadVars, grpVars, histVars, asrVars, parseVars, matVars, runVars, guiVars>>

\* top of an iteration: the stop test, the progress report and build_prompt
LoopCheck ==
    /\ pc = "rec_check"
    /\ IF LoopStopCheck(stop_set)
       THEN Raise("cancelled") /\ UNCHANGED <<progress, prompt, ctxOp, context_history>>
       ELSE /\ progress' = Append(progress,
                                  SegmentPercent(seg_index, Len(combined_segments)))
            /\ prompt' = BuildPrompt(scenario, context_history, max_tokens)
            /\ context_history' = HistoryAfterBuild(context_history)
            /\ ctxOp' = "build_prompt"
            /\ pc' = "rec_call"
            /\ UNCHANGED error
    /\ UNCHANGED <<stop_set, input_exists, input_is_opus, converted_on_disk,
                   remove_after, n_groups, segment_files, combined_segments,
                   seg_index, results, asr_log, output_file, ret>>
    /\ UNCHANGED <<max_tokens, scenario, vadVars, grpVars, histVars, asrVars, parseVars, matVars, runVars, guiVars>>

\* asr_client.recognize is entered
RecognizeCall ==
    /\ pc = "rec_call"
    /\ asr_log' = Append(asr_log, [segment_id |-> combined_segments[seg_index],
                                   stop_was_set |-> stop_set,
                                   outcome |-> "pending",
                                   text |-> <<>>])
    /\ pc' = "rec_wait"
    /\ UNCHANGED <<stop_set, input_exists, input_is_opus, converted_on_disk,
                   remove_after, n_groups, segment_files, combined_segments,
                   seg_index, results, progress, output_file, error, ret>>
    /\ UNCHANGED <<ctxVars, vadVars, grpVars, histVars, asrVars, parseVars, matVars, runVars, guiVars>>

\* asr_client.recognize returns a text or raises; the rest of the iteration
RecognizeReturn(outcome) ==
    /\ pc = "rec_wait"
    /\ outcome = "raise" => Faults < MaxFaults
    /\ LET id   == combined_segments[seg_index]
           text == IF outcome = "ok" THEN SegmentText(id) ELSE <<>>
       IN  /\ asr_log' = [asr_log EXCEPT ![Len(asr_log)] =
                              [@ EXCEPT !.outcome = outcome, !.text = text]]
           /\ IF SegmentExceptionEscapes(outcome)
              THEN /\ Raise("recognition_failed")
                   /\ UNCHANGED <<context_history, ctxOp, results, seg_index>>
              ELSE /\ context_history' = HistoryAfter(context_history, outcome, text)
                   /\ ctxOp' = IF outcome = "ok" THEN "add_context" ELSE ctxOp
                   /\ results' = Append(results, ResultEntry(id, outcome, text))
                   /\ UNCHANGED error
                   /\ IF LoopContinues(seg_index, Len(combined_segments), outcome)
                      THEN pc' = "rec_check" /\ seg_index' = seg_index + 1
                      ELSE pc' = "step5" /\ UNCHANGED seg_index
    /\ UNCHANGED <<stop_set, input_exists, input_is_opus, converted_on_disk,
                   remove_after, n_groups, segment_files, combined_segments,
                   progress, output_file, ret>>
    /\ UNCHANGED <<max_tokens, scenario, prompt, vadVars, grpVars, histVars, asrVars, parseVars, matVars, runVars, guiVars>>

\* step 5, the cleanup and the return of process_audio_file
Step5SaveAndFinish ==
    /\ pc = "step5"
    /\ IF CheckStop(stop_set)
       THEN /\ Raise("cancelled")
            /\ UNCHANGED <<progress, output_file, input_exists, converted_on_disk,
                           segment_files, ret>>
       ELSE \/ /\ Raise("save_failed")
               /\ progress' = Append(progress, StagePercent(90))
               /\ UNCHANGED <<output_file, input_exists, converted_on_disk,
                              segment_files, ret>>
            \/ LET path == ConvertResult(input_is_opus).path
                   list == RemovalList(remove_after,
                               PathExists(path, input_exists, converted_on_disk),
                               combined_segments, segment_files)
               IN  \E k \in 0 .. Len(list) :
                       /\ k < Len(list) => Faults < MaxFaults
                       /\ output_file' = [written |-> TRUE, text |-> TextContent(results)]
                       /\ input_exists' =
                              (input_exists /\ ~(path = "input" /\ -1 \in Removed(list, k)))
                       /\ converted_on_disk' =
                              (converted_on_disk
                               /\ ~(path = "converted" /\ -1 \in Removed(list, k)))
                       /\ segment_files' = segment_files \ Removed(list, k)
                       /\ progress' = progress \o <<StagePercent(90), StagePercent(100)>>
                       /\ ret' = ResultDict(results, combined_segments)
                       /\ pc' = "returned"
                       /\ UNCHANGED error
    /\ UNCHANGED <<stop_set, input_is_opus, remove_after, n_groups,
                   combined_segments, seg_index, results, asr_log>>
    /\ UNCHANGED <<ctxVars, vadVars, grpVars, histVars, asrVars, parseVars, matVars, runVars, guiVars>>

Next ==
    \/ SetStop
    \/ StartRun
    \/ Step1Convert
    \/ Step2Vad
    \/ Step3Segments
    \/ Step4Begin
    \/ LoopCheck
    \/ RecognizeCall
    \/ \E outcome \in {"ok", "raise"} : RecognizeReturn(outcome)
    \/ Step5SaveAndFinish

Spec == Init /\ [][Next]_vars

(* Two calls of process_audio_file on one Pipeline object *)
(* The second call is made after the first returned or raised, on another   *)
(* file and with a stop event of its own.  The ContextManager belongs to    *)
(* the object and is the one of the first call; everything else of a run is *)
(* local to the call.  The runs are short: at most two groups each.         *)

TwoRunCounts == {0, 1, 2}

\* context_history at the entry of the next call, were the history cleared
\* between the runs
HistoryAtRunStartCleared(hist) == <<>>

\* context_history at the entry of the next call: process_audio_file and the
\* methods it calls never call clear_context, and __init__ ran only once
HistoryAtRunStart(hist) == hist

\* step 2 of a run of the two-call specification
Step2VadFew == Step2Vad /\ n_groups' \in TwoRunCounts

\* the caller calls process_audio_file again
SecondRun ==
    /\ runs.which = "first"
    /\ pc \in {"returned", "raised"}
    /\ runs' = [which |-> "second", carried |-> context_history]
    /\ context_history' = HistoryAtRunStart(context_history)
    /\ pc' = "constructed"
    /\ input_exists' \in BOOLEAN
    /\ input_is_opus' \in BOOLEAN
    /\ stop_set' = FALSE
    /\ converted_on_disk' = FALSE
    /\ remove_after' = FALSE
    /\ n_groups' = 0
    /\ segment_files' = {}
    /\ combined_segments' = <<>>
    /\ seg_index' = 0
    /\ results' = <<>>
    /\ asr_log' = <<>>
    /\ progress' = <<>>
    /\ output_file' = NoOutput
    /\ error' = "none"
    /\ ret' = NoReturn
    /\ UNCHANGED <<max_tokens, scenario, prompt, ctxOp>>
    /\ UNCHANGED <<vadVars, grpVars, histVars, asrVars, parseVars, matVars, guiVars>>

NextTwo ==
    \/ SetStop
    \/ StartRun
    \/ Step1Convert
    \/ Step2VadFew
    \/ Step3Segments
    \/ Step4Begin
    \/ LoopCheck
    \/ RecognizeCall
    \/ \E outcome \in {"ok", "raise"} : RecognizeReturn(outcome)
    \/ Step5SaveAndFinish
    \/ SecondRun

SpecTwo == Init /\ [][NextTwo]_vars

-----------------------------------------------------------------------------
(***************************************************************************)
(* One recognize call of a recognition client.                             *)
(*   ASRClient.recognize           src/src/core/asr_client.py 51-132       *)
(*   SiliconFlowBackend.recognize  src/src/core/asr_backends/siliconflow.py*)
(* asr.trace is what the call did, in order: an entry for every API        *)
(* request with its result, and an entry for every time.sleep with its     *)
(* length in seconds.                                                      *)
(***************************************************************************)

\* max_retries of ASRClient.__init__
DefaultMaxRetries == 3

\* retry_delay of ASRClient.__init__, in seconds
DefaultRetryDelay == 1

\* max_retries is drawn from 0 .. MaxRetriesBound
MaxRetriesBound == 4

RetryDelays == {DefaultRetryDelay, 2}

\* results of one request of ASRClient: _parse_response reports success,
\* _parse_response reports success False, or the request raised
AsrOutcomes == {"success", "rejected", "exception"}

\* results of one request of SiliconFlowBackend: a text, a status other than
\* 200, a response without text, or the request raised
SfOutcomes == {"success", "bad_status", "empty_text", "exception"}

ApiCall(result) == [kind |-> "api_call", result |-> result, secs |-> 0]

Sleep(secs) == [kind |-> "sleep", result |-> "none", secs |-> secs]

\* the index i is one of range(max_retries + 1)
InRange(i, m) == i < m + 1

RetryAllowedOnceMore(attempt, m) == attempt <= m

\* 'if attempt < self.max_retries'
RetryAllowed(attempt, m) == attempt < m

\* the end of a call whose last attempt failed, were the failed result handed
\* back as SiliconFlowBackend does
AsrFinalFailureReturned(outcome) == "returned_failure"

\* the end of a call of ASRClient whose last attempt failed: a result with
\* success False raises ASRClientError inside the try block, and the except
\* clause raises ASRClientError for that and for any other exception
AsrFinalFailure(outcome) == "raised"

AsrConstructed(client, m, d, valid) ==
    asr = [client |-> client, max_retries |-> m, retry_delay |-> d,
           file_valid |-> valid, apc |-> "constructed", attempt |-> 0,
           trace |-> <<>>]

InitAsr ==
    /\ CtxConstructed(DefaultMaxTokens)
    /\ VadUnused
    /\ GrpUnused
    /\ PipeUnused
    /\ HistUnused
    /\ ParseUnused
    /\ MatUnused
    /\ RunsUnused
    /\ GuiUnused
    /\ \/ \E m \in 0..MaxRetriesBound, d \in RetryDelays, valid \in BOOLEAN :
            AsrConstructed("ASRClient", m, d, valid)
       \/ \E m \in 0..MaxRetriesBound :
            AsrConstructed("SiliconFlow", m, 0, TRUE)

\* ASRClient.recognize up to its loop: _validate_audio_file raises for a
\* missing or oversized file, otherwise the first iteration begins
AsrRecognize ==
    /\ asr.client = "ASRClient"
    /\ asr.apc = "constructed"
    /\ asr' = [asr EXCEPT !.apc = IF asr.file_valid /\ InRange(0, asr.max_retries)
                                  THEN "loop" ELSE "raised"]
    /\ UNCHANGED <<ctxVars, vadVars, grpVars, pipeVars, histVars, parseVars, matVars, runVars, guiVars>>

\* one iteration of the loop of ASRClient.recognize up to its return, raise
\* or time.sleep
AsrAttempt(outcome) ==
    /\ asr.client = "ASRClient"
    /\ asr.apc = "loop"
    /\ asr' = [asr EXCEPT
                 !.trace = Append(asr.trace, ApiCall(outcome)),
                 !.apc = IF outcome = "success" THEN "returned"
                         ELSE IF RetryAllowed(asr.attempt, asr.max_retries)
                              THEN "sleeping" ELSE AsrFinalFailure(outcome)]
    /\ UNCHANGED <<ctxVars, vadVars, grpVars, pipeVars, histVars, parseVars, matVars, runVars, guiVars>>

\* time.sleep(self.retry_delay) returns and 'continue' takes the next index
\* of the range, or leaves the loop for the raise that follows it
AsrSleep ==
    /\ asr.client = "ASRClient"
    /\ asr.apc = "sleeping"
    /\ asr' = [asr EXCEPT
                 !.trace = Append(asr.trace, Sleep(asr.retry_delay)),
                 !.attempt = asr.attempt + 1,
                 !.apc = IF InRange(asr.attempt + 1, asr.max_retries)
                         THEN "loop" ELSE "raised"]
    /\ UNCHANGED <<ctxVars, vadVars, grpVars, pipeVars, histVars, parseVars, matVars, runVars, guiVars>>

\* SiliconFlowBackend.recognize up to its loop
SfRecognize ==
    /\ asr.client = "SiliconFlow"
    /\ asr.apc = "constructed"
    /\ asr' = [asr EXCEPT !.apc = IF InRange(0, asr.max_retries)
                                  THEN "loop" ELSE "returned_failure"]
    /\ UNCHANGED <<ctxVars, vadVars, grpVars, pipeVars, histVars, parseVars, matVars, runVars, guiVars>>

\* one iteration of the loop of SiliconFlowBackend.recognize: a failed
\* request is repeated at once, a response without text is returned as a
\* failure, and the last failure is returned, not raised
SfAttempt(outcome) ==
    /\ asr.client = "SiliconFlow"
    /\ asr.apc = "loop"
    /\ LET retry == /\ outcome \in {"bad_status", "exception"}
                    /\ RetryAllowed(asr.attempt, asr.max_retries)
       IN asr' = [asr EXCEPT
                 !.trace = Append(asr.trace, ApiCall(outcome)),
                 !.attempt = IF retry THEN asr.attempt + 1 ELSE asr.attempt,
                 !.apc = IF outcome = "success" THEN "returned"
                         ELSE IF retry /\ InRange(asr.attempt + 1, asr.max_retries)
                              THEN "loop" ELSE "returned_failure"]
    /\ UNCHANGED <<ctxVars, vadVars, grpVars, pipeVars, histVars, parseVars, matVars, runVars, guiVars>>

NextAsr ==
    \/ AsrRecognize
    \/ \E o \in AsrOutcomes : AsrAttempt(o)
    \/ AsrSleep
    \/ SfRecognize
    \/ \E o \in SfOutcomes : SfAttempt(o)

SpecAsr == InitAsr /\ [][NextAsr]_vars

\* every request the client makes is answered or fails, and every sleep ends
SpecAsrLive == SpecAsr /\ WF_vars(NextAsr)

-----------------------------------------------------------------------------
(***************************************************************************)
(* The result a recognition client makes of a response, and what the loop  *)
(* of _recognize_segments does with it.                                    *)
(*   ASRClient._parse_response     src/src/core/asr_client.py 184-262      *)
(*   DashScopeBackend.recognize    src/src/core/asr_backends/dashscope.py  *)
(*   SiliconFlowBackend.recognize  src/src/core/asr_backends/siliconflow.py*)
(* A response is its status code and the texts of its content items, in    *)
(* order; the JSON of SiliconFlow has one text or none.                    *)
(***************************************************************************)

\* responses are handled up to MaxParseCalls times
MaxParseCalls == 2

PartTexts == {<<>>, <<" ">>, <<"Z">>, <<"\n", "Z", " ">>}

PartCounts == {0, 1, 2}

Clients == {"ASRClient", "DashScope", "SiliconFlow"}

Responses(client) ==
    {[status |-> st, parts |-> ps] :
        st \in {200, 500},
        ps \in UNION {[1..n -> PartTexts] :
                        n \in IF client = "SiliconFlow" THEN {0, 1} ELSE PartCounts}}

RECURSIVE Concat(_)
\* the texts of the content items, joined without a separator
Concat(parts) ==
    IF Len(parts) = 0 THEN <<>> ELSE parts[1] \o Concat(Tail(parts))

ParseFailure == [success |-> FALSE, text |-> <<>>]

ParseSuccess(text) == [success |-> TRUE, text |-> text]

\* the test of an empty text, made on the text as received
IsBlankUnstripped(text) == text = <<>>

\* 'not text_content.strip()'
IsBlank(text) == Strip(text) = <<>>

\* ASRClient._parse_response
AsrParseResponse(response) ==
    IF response.status # 200 THEN ParseFailure
    ELSE IF response.parts = <<>> THEN ParseFailure
    ELSE LET text_content == Concat(response.parts)
         IN  IF IsBlank(text_content) THEN ParseFailure
             ELSE ParseSuccess(Strip(text_content))

\* step 3 of DashScopeBackend.recognize
DashScopeParse(response) ==
    IF response.status # 200 THEN ParseFailure
    ELSE LET text == Strip(Concat(response.parts))
         IN  IF text = <<>> THEN ParseFailure ELSE ParseSuccess(text)

\* SiliconFlowBackend.recognize on the response of its last attempt
SiliconFlowParse(response) ==
    IF response.status # 200 THEN ParseFailure
    ELSE LET text == Strip(IF response.parts = <<>> THEN <<>> ELSE response.parts[1])
         IN  IF text = <<>> THEN ParseFailure ELSE ParseSuccess(text)

ParseBy(client, response) ==
    IF client = "ASRClient" THEN AsrParseResponse(response)
    ELSE IF client = "DashScope" THEN DashScopeParse(response)
    ELSE SiliconFlowParse(response)

\* what the caller of recognize sees: ASRClient raises for a failure, and
\* the loop of _recognize_segments makes a failed entry of the exception
OutcomeOf(result) == IF result.success THEN "ok" ELSE "failed"

InitParse ==
    /\ CtxConstructed(DefaultMaxTokens)
    /\ VadUnused
    /\ GrpUnused
    /\ PipeUnused
    /\ HistUnused
    /\ AsrUnused
    /\ ParseUnused
    /\ MatUnused
    /\ RunsUnused
    /\ GuiUnused

\* one pass of the loop of _recognize_segments from the response on: the
\* client makes its result, a successful text goes to the context history,
\* and the entry is appended to the results
HandleResponse(client, response) ==
    /\ parsed.calls < MaxParseCalls
    /\ LET result == ParseBy(client, response)
       IN  /\ parsed' = [client |-> client, response |-> response,
                         result |-> result, calls |-> parsed.calls + 1]
           /\ context_history' =
                 HistoryAfter(context_history, OutcomeOf(result), result.text)
           /\ added_texts' = IF result.success
                             THEN Append(added_texts, result.text)
                             ELSE added_texts
           /\ results' = Append(results,
                 ResultEntry(parsed.calls, OutcomeOf(result), result.text))
    /\ UNCHANGED <<max_tokens, scenario, prompt, ctxOp>>
    /\ UNCHANGED <<pc, stop_set, input_exists, input_is_opus, converted_on_disk,
                   remove_after, n_groups, segment_files, combined_segments,
                   seg_index, asr_log, progress, output_file, error, ret>>
    /\ UNCHANGED <<vadVars, grpVars, asrVars, matVars, runVars, guiVars>>

NextParse == \E c \in Clients : \E r \in Responses(c) : HandleResponse(c, r)

SpecParse == InitParse /\ [][NextParse]_vars

-----------------------------------------------------------------------------
(***************************************************************************)
(* SegmentManager: making the audio file of each group.                    *)
(*   create_segments_from_vad     src/src/core/segment_manager.py 50-76    *)
(*   _create_segment_from_group   src/src/core/segment_manager.py 241-298  *)
(*   validate_segment             src/src/core/segment_manager.py 357-381  *)
(* A group is given by the time it spans.  ffmpeg copies whole packets, so *)
(* the duration measured on the file it wrote may differ from the span.    *)
(* Sizes are in an arbitrary unit.                                         *)
(***************************************************************************)

\* self.max_size of the segment manager under test
TestMaxSize == 10

\* the loop of create_segments_from_vad handles up to MaxMatGroups groups
MaxMatGroups == 2

\* spans of the groups handed to the loop; a fragment of a split interval
\* can span more than max_duration
GroupSpans == {2, TestMaxDuration, TestMaxDuration + 3}

MeasuredDurations(span) == {span - 1, span, span + 1}

FileSizes == {1, TestMaxSize, TestMaxSize + 1}

\* the AudioSegment _create_segment_from_group builds
AudioSegment(index, span, actual_duration, file_size) ==
    [id |-> index, group_duration |-> span, duration |-> actual_duration,
     file_size |-> file_size, file_exists |-> TRUE]

\* SegmentManager.validate_segment
ValidateSegment(segment, maxD, maxSize) ==
    IF ~segment.file_exists THEN FALSE
    ELSE IF segment.duration > maxD THEN FALSE
    ELSE IF segment.file_size > maxSize THEN FALSE
    ELSE TRUE

InitMat ==
    /\ CtxConstructed(DefaultMaxTokens)
    /\ VadUnused
    /\ GrpUnused
    /\ PipeUnused
    /\ HistUnused
    /\ AsrUnused
    /\ ParseUnused
    /\ RunsUnused
    /\ GuiUnused
    /\ mat = [max_duration |-> TestMaxDuration, max_size |-> TestMaxSize,
              i |-> 0, audio_segments |-> <<>>]

\* one pass of the loop of create_segments_from_vad for a group whose
\* extraction and measurement succeed: the segment is appended as built
CreateSegmentFromGroup(span, actual_duration, file_size) ==
    /\ mat.i < MaxMatGroups
    /\ mat' = [mat EXCEPT
                 !.i = mat.i + 1,
                 !.audio_segments =
                     Append(mat.audio_segments,
                            AudioSegment(mat.i, span, actual_duration, file_size))]
    /\ UNCHANGED <<ctxVars, vadVars, grpVars, pipeVars, histVars, asrVars, parseVars, runVars, guiVars>>

\* one pass for a group whose extraction fails or whose file cannot be
\* measured: _create_segment_from_group returns None, nothing is appended
CreateSegmentFails ==
    /\ mat.i < MaxMatGroups
    /\ mat' = [mat EXCEPT !.i = mat.i + 1]
    /\ UNCHANGED <<ctxVars, vadVars, grpVars, pipeVars, histVars, asrVars, parseVars, runVars, guiVars>>

NextMat ==
    \/ \E span \in GroupSpans : \E d \in MeasuredDurations(span) :
          \E size \in FileSizes : CreateSegmentFromGroup(span, d, size)
    \/ CreateSegmentFails

SpecMat == InitMat /\ [][NextMat]_vars

-----------------------------------------------------------------------------
(***************************************************************************)
(* The window that starts the runs.                                        *)
(*   MainFrame.on_start_processing      src/src/gui_wx/app.py 489-542      *)
(*   MainFrame.process_audio_background src/src/gui_wx/app.py 544-585      *)
(*   ASRPanel.on_start_processing       src/src/gui_wx/panels/asr_panel.py *)
(*   ProgressDialog.on_stop             src/src/gui_wx/dialogs/            *)
(*                                      progress_dialog.py 29-32           *)
(* The GUI thread runs one handler at a time; a modal dialog keeps the     *)
(* window from taking clicks until it ends.  Every start creates a stop    *)
(* event, a progress dialog and a worker thread.  A worker is kept by the  *)
(* stage of process_audio_file it is in and by the stop event it was given *)
(* when it called process_audio_file (0: not called yet).                  *)
(***************************************************************************)

MaxStarts == 3

\* the two windows that have a start button
Windows == {"frame", "panel"}

\* the stages of a worker, in order, after the call of process_audio_file
WorkerStages == <<"steps12", "cutting", "recognizing", "saving">>

\* Pipeline(...) in process_audio_background: the panel passes config=cfg,
\* which Pipeline.__init__(output_dir, context_prompt) does not take
PipelineConstructed(window) == window = "frame"

\* threading.Thread.is_alive of worker number w
Alive(w) == gui.workers[w].pc # "ended"

\* the state of the window after the start handler passed ShowModal,
\* whatever ended the dialog: the button enabled, a message shown
AfterShowModal(g) == [g EXCEPT !.start_enabled = TRUE, !.modal = "message"]

\* the start button takes a click: it is enabled and no modal dialog is open
StartClickable(g) == g.start_enabled /\ g.modal = "none"

InitGui ==
    /\ \E window \in Windows :
           gui = [window |-> window, start_enabled |-> TRUE, modal |-> "none",
                  owner |-> 0, stop_events |-> <<>>, workers |-> <<>>]
    /\ CtxUnused
    /\ VadUnused
    /\ GrpUnused
    /\ PipeUnused
    /\ HistUnused
    /\ AsrUnused
    /\ ParseUnused
    /\ MatUnused
    /\ RunsUnused

\* on_start_processing up to ShowModal
GuiStart ==
    /\ StartClickable(gui)
    /\ Len(gui.workers) < MaxStarts
    /\ gui' = [gui EXCEPT !.start_enabled = FALSE,
                          !.modal = "progress",
                          !.owner = Len(gui.workers) + 1,
                          !.stop_events = Append(@, FALSE),
                          !.workers = Append(@, [pc |-> "created", ev |-> 0])]
    /\ UNCHANGED <<ctxVars, vadVars, grpVars, pipeVars, histVars, asrVars,
                   parseVars, matVars, runVars>>

\* ProgressDialog.on_stop, and the start handler from ShowModal on
GuiStop ==
    /\ gui.modal = "progress"
    /\ gui' = AfterShowModal([gui EXCEPT !.stop_events[gui.owner] = TRUE])
    /\ UNCHANGED <<ctxVars, vadVars, grpVars, pipeVars, histVars, asrVars,
                   parseVars, matVars, runVars>>

\* the user closes the message box; the handler that showed it returns
GuiDismiss ==
    /\ gui.modal = "message"
    /\ gui' = [gui EXCEPT !.modal = "none"]
    /\ UNCHANGED <<ctxVars, vadVars, grpVars, pipeVars, histVars, asrVars,
                   parseVars, matVars, runVars>>

\* the worker's thread function ends: EndModal is posted to its own dialog,
\* which ends the dialog if it is still the one open
WorkerEnds(g, w) ==
    LET g2 == [g EXCEPT !.workers[w].pc = "ended"]
    IN  IF g.modal = "progress" /\ g.owner = w THEN AfterShowModal(g2) ELSE g2

\* process_audio_background builds the Pipeline and calls process_audio_file
\* with self.stop_event, the event of the latest start
WorkerCalls(w) ==
    /\ w \in 1..Len(gui.workers)
    /\ gui.workers[w].pc = "created"
    /\ gui' = IF PipelineConstructed(gui.window)
              THEN [gui EXCEPT !.workers[w] =
                                   [pc |-> "steps12", ev |-> Len(gui.stop_events)]]
              ELSE WorkerEnds(gui, w)
    /\ UNCHANGED <<ctxVars, vadVars, grpVars, pipeVars, histVars, asrVars,
                   parseVars, matVars, runVars>>

\* the worker reaches its next stop check (before a stage, or at the top of
\* the recognition loop) or its stage raises
WorkerAdvances(w, to) ==
    /\ w \in 1..Len(gui.workers)
    /\ \E k \in 1..Len(WorkerStages) :
           /\ gui.workers[w].pc = WorkerStages[k]
           /\ to \in {"ended"} \cup (IF k < Len(WorkerStages)
                                     THEN {WorkerStages[k + 1]} ELSE {})
    /\ IF to = "ended" \/ gui.stop_events[gui.workers[w].ev]
       THEN gui' = WorkerEnds(gui, w)
       ELSE gui' = [gui EXCEPT !.workers[w].pc = to]
    /\ UNCHANGED <<ctxVars, vadVars, grpVars, pipeVars, histVars, asrVars,
                   parseVars, matVars, runVars>>

NextGui ==
    \/ GuiStart
    \/ GuiStop
    \/ GuiDismiss
    \/ \E w \in 1..MaxStarts : WorkerCalls(w)
    \/ \E w \in 1..MaxStarts, to \in {"cutting", "recognizing", "saving", "ended"} :
           WorkerAdvances(w, to)

SpecGui == InitGui /\ [][NextGui]_vars

-----------------------------------------------------------------------------
(* C1: for every scenario and every sequence of set_scenario / add_context *)
(* calls, the string build_prompt returns counts at most max_tokens tokens *)
C1_PromptWithinBudget ==
    ctxOp = "build_prompt" => CountTokens(prompt) <= max_tokens

(* C2: for any VAD input, the intervals of the returned VADResult are      *)
(* ordered by start time, do not overlap and cover [0, total_duration]     *)
(* exactly, with no gap                                                    *)
Partitions(segs, total) ==
    /\ \A i \in DOMAIN segs : segs[i].start_time < segs[i].end_time
    /\ \A i \in 1..(Len(segs) - 1) : segs[i].end_time = segs[i + 1].start_time
    /\ IF Len(segs) = 0 THEN total = 0
       ELSE segs[1].start_time = 0 /\ segs[Len(segs)].end_time = total

C2_TimelinePartitions ==
    vad_status = "returned" => Partitions(vad_segments, total_duration)

(* C3: when every speech interval is shorter than max_duration, every      *)
(* group spans at most max_duration from the start of its first interval   *)
(* to the end of its last one                                              *)
GroupSpan(g) == g[Len(g)].end_time - g[1].start_time

AllShorter == \A i \in DOMAIN speech_segments : Duration(speech_segments[i]) < max_duration

C3_GroupsWithinMaxDuration ==
    (grp_status = "grouped" /\ AllShorter) =>
        \A g \in DOMAIN groups : GroupSpan(groups[g]) <= max_duration

C3_Witness ==
    /\ grp_status = "grouped"
    /\ AllShorter
    /\ Len(speech_segments) = 3
    /\ Len(groups) = 2
    /\ \E g \in DOMAIN groups : Len(groups[g]) = 2

(* C4: splitting one interval longer than max_duration gives fragments     *)
(* that are contiguous, start at the interval's start, end at its end and  *)
(* are each at most max_duration long                                      *)
Contiguous(frags, segment) ==
    /\ Len(frags) > 0
    /\ frags[1].start_time = segment.start_time
    /\ frags[Len(frags)].end_time = segment.end_time
    /\ \A i \in 1..(Len(frags) - 1) : frags[i].end_time = frags[i + 1].start_time

C4_SplitContiguousAndBounded ==
    grp_status = "split" =>
        /\ Contiguous(sub_segments, speech_segments[1])
        /\ \A i \in DOMAIN sub_segments : Duration(sub_segments[i]) <= max_duration

(* C5: when the prompt for the segment at position i has been built, the   *)
(* recognizer has been called for exactly the segments before it, in order, *)
(* every one of those calls has ended, and the context history is the texts *)
(* of the successful ones among them, in order, cut to the most recent 10.  *)
PriorSuccessTexts ==
    LET prior == SubSeq(asr_log, 1, seg_index - 1)
        done  == SelectSeq(prior, LAMBDA e : e.outcome = "ok")
    IN  [k \in 1 .. Len(done) |-> SegmentText(done[k].segment_id)]

MostRecent(texts, n) ==
    IF Len(texts) > n THEN SubSeq(texts, Len(texts) - n + 1, Len(texts)) ELSE texts

C5_HistoryIsPriorSuccesses ==
    pc \in {"rec_call", "rec_wait"} =>
        /\ Len(asr_log) = (IF pc = "rec_call" THEN seg_index - 1 ELSE seg_index)
        /\ \A k \in 1 .. Len(asr_log) : asr_log[k].segment_id = combined_segments[k]
        /\ \A k \in 1 .. seg_index - 1 : asr_log[k].outcome \in {"ok", "raise"}
        /\ context_history = MostRecent(PriorSuccessTexts, 10)
        /\ \A k \in 1 .. Len(context_history) :
               \E j \in 1 .. seg_index - 1 :
                   /\ asr_log[j].outcome = "ok"
                   /\ context_history[k] = asr_log[j].text

\* a prompt is built after eleven successes: the first text has left the
\* history
C5_Witness ==
    /\ pc = "rec_call"
    /\ seg_index = 12
    /\ Len(PriorSuccessTexts) = 11
    /\ Len(context_history) = 10
    /\ context_history[1] = PriorSuccessTexts[2]

(* C6: the segments the recognizer has been called for are, in order, the   *)
(* first materialized segments, each once, and the result list holds one    *)
(* entry for each call that ended, in the same order; when the loop is over *)
(* and no cancellation was requested, every materialized segment has been   *)
(* called for once and has one entry, whichever calls failed.               *)
CalledIds == [k \in 1 .. Len(asr_log) |-> asr_log[k].segment_id]

ResultIds == [k \in 1 .. Len(results) |-> results[k].segment_id]

C6_OneCallAndOneOutcomePerSegment ==
    /\ Len(asr_log) <= Len(combined_segments)
    /\ CalledIds = SubSeq(combined_segments, 1, Len(asr_log))
    /\ Len(results) \in {Len(asr_log), Len(asr_log) - 1}
    /\ ResultIds = SubSeq(combined_segments, 1, Len(results))
    /\ \A k \in 1 .. Len(results) :
           results[k].success = (asr_log[k].outcome = "ok")
    /\ (~stop_set /\ pc \in {"step5", "returned"}) =>
           /\ CalledIds = combined_segments
           /\ ResultIds = combined_segments

\* a run without cancellation whose second call failed and third succeeded
C6_Witness ==
    /\ pc = "returned"
    /\ ~stop_set
    /\ Len(combined_segments) = 3
    /\ asr_log[1].outcome = "ok"
    /\ asr_log[2].outcome = "raise"
    /\ asr_log[3].outcome = "ok"

(* C7: the text a run returns is the texts the recognizer returned, failed  *)
(* calls left out, in call order with one space between two texts; the     *)
(* success rate returned is successes over outcomes (0 when no outcome).    *)
RECURSIVE SpaceJoined(_, _)
SpaceJoined(log, k) ==
    IF k = 0 THEN <<>>
    ELSE LET before == SpaceJoined(log, k - 1)
         IN  IF log[k].outcome # "ok" THEN before
             ELSE IF \E j \in 1 .. k - 1 : log[j].outcome = "ok"
                  THEN before \o <<" ">> \o log[k].text
                  ELSE log[k].text

Successes == Cardinality({k \in 1 .. Len(asr_log) : asr_log[k].outcome = "ok"})

C7_AggregatedTextAndRate ==
    pc = "returned" =>
        /\ ret.text_content = SpaceJoined(asr_log, Len(asr_log))
        /\ output_file.text = ret.text_content
        /\ ret.rate_den > 0
        /\ IF Len(asr_log) > 0
           THEN ret.rate_num * Len(asr_log) = Successes * ret.rate_den
           ELSE ret.rate_num = 0

\* three segments, the second failed: text1 + ' ' + text3 and 2/3
C7_Witness ==
    /\ pc = "returned"
    /\ Len(asr_log) = 3
    /\ asr_log[1].outcome = "ok"
    /\ asr_log[2].outcome = "raise"
    /\ asr_log[3].outcome = "ok"
    /\ ret.text_content = asr_log[1].text \o <<" ">> \o asr_log[3].text
    /\ ret.rate_num = 2
    /\ ret.rate_den = 3

(* C8, as stated: no recognition call is entered while the stop event is    *)
(* set.                                                                     *)
C8_NoCallStartsAfterStop ==
    \A k \in 1 .. Len(asr_log) : ~asr_log[k].stop_was_set

(* C8, amended: at most one recognition call is entered while the stop      *)
(* event is set, it is the last call of the run, and with the event set the *)
(* run leaves a check (before a stage, before a segment) only by raising.   *)
CheckPositions == {"step1", "step2", "step3", "step4", "step5", "rec_check"}

C8_AtMostOneCallAfterStop ==
    /\ [](/\ Cardinality({k \in 1 .. Len(asr_log) : asr_log[k].stop_was_set}) <= 1
          /\ \A k \in 1 .. Len(asr_log) : asr_log[k].stop_was_set => k = Len(asr_log))
    /\ [][(stop_set /\ pc \in CheckPositions /\ pc' # pc) =>
              (pc' = "raised" /\ error' = "cancelled")]_vars

\* the event was set between the test before a segment and its call: the
\* call was made and ended, and the run was cancelled at the next test
C8_Witness ==
    /\ pc = "raised"
    /\ error = "cancelled"
    /\ Len(asr_log) = 2
    /\ ~asr_log[1].stop_was_set
    /\ asr_log[2].stop_was_set
    /\ asr_log[2].outcome = "ok"
    /\ Len(combined_segments) = 3

(* C9: when a run is cancelled, no segment file of the run is on disk once  *)
(* process_audio_file has raised.                                           *)
C9_CancelRemovesSegmentFiles ==
    (pc = "raised" /\ error = "cancelled") => segment_files = {}

(* C10: when process_audio_file has returned, or has raised because no      *)
(* speech was detected, the detection failed or the save failed, neither    *)
(* the converted copy nor a segment file of the run is on disk.             *)
C10_NoTempFilesAfterTermination ==
    (\/ pc = "returned"
     \/ pc = "raised" /\ error \in {"no_speech", "vad_failed", "save_failed"})
        => (~converted_on_disk /\ segment_files = {})

(* C11: a run is past step 2 only with a VAD result that holds speech; a    *)
(* run in which the VAD found no speech has raised, the recognizer was not  *)
(* called, no text file was written and no result was returned.             *)
PastVad == {"step3", "step4", "rec_check", "rec_call", "rec_wait", "step5", "returned"}

C11_NoSpeechRaises ==
    /\ pc \in PastVad => n_groups > 0
    /\ (Len(asr_log) > 0 \/ output_file.written \/ ret # NoReturn) => n_groups > 0
    /\ error = "no_speech" =>
           /\ pc = "raised"
           /\ n_groups = 0
           /\ Len(asr_log) = 0
           /\ ~output_file.written
           /\ ret = NoReturn

\* the VAD stage ran on the converted copy and found no speech
C11_Witness ==
    /\ pc = "raised"
    /\ error = "no_speech"
    /\ converted_on_disk
    /\ progress = <<StagePercent(0), StagePercent(10), StagePercent(20)>>

(* C12: after any sequence of add_context calls the history has at most 10  *)
(* entries and is the stripped non-blank arguments of the calls, in call    *)
(* order, cut to the 10 most recent; a call with a non-blank text on a full *)
(* history drops the oldest entry and nothing else.                         *)
NonBlankStripped(texts) ==
    LET nonBlank == SelectSeq(texts, LAMBDA t : \E k \in 1 .. Len(t) : ~IsSpace(t[k]))
    IN  [k \in 1 .. Len(nonBlank) |-> Strip(nonBlank[k])]

C12_HistoryIsLastTenAdded ==
    /\ [](/\ Len(context_history) <= 10
          /\ context_history = MostRecent(NonBlankStripped(added_texts), 10))
    /\ [][(Len(context_history) = 10 /\ context_history' # context_history) =>
              /\ Len(context_history') = 10
              /\ SubSeq(context_history', 1, 9) = SubSeq(context_history, 2, 10)
              /\ context_history'[10] = Strip(added_texts'[Len(added_texts')])]_vars

\* eleven non-blank texts and a blank one were added: the first has left
C12_Witness ==
    /\ Len(added_texts) = 12
    /\ Len(NonBlankStripped(added_texts)) = 11
    /\ added_texts[1] = <<"Z">>
    /\ context_history[1] = <<"a", " ", "b">>
    /\ context_history[10] = <<"Z">>
    /\ Len(context_history) = 10

(* C13: when the scenario and the whole history put together count more    *)
(* than max_tokens, build_prompt returns the scenario in full followed by   *)
(* the k most recent history entries, where k is the largest number of      *)
(* most recent entries whose token counts sum to at most                    *)
(* max_tokens - tokens(scenario) - 100.                                     *)
Assembled(scn, entries) ==
    IF Len(entries) = 0 THEN scn
    ELSE IF Len(scn) = 0 THEN Join(<<" ">>, entries)
         ELSE scn \o <<"\n">> \o Join(<<" ">>, entries)

RECURSIVE TokenSum(_)
TokenSum(entries) ==
    IF Len(entries) = 0 THEN 0
    ELSE CountTokens(entries[1]) + TokenSum(Tail(entries))

C13_TruncationKeepsRecentSuffix ==
    (/\ ctxOp = "build_prompt"
     /\ CountTokens(Assembled(scenario, context_history)) > max_tokens) =>
        LET budget == max_tokens - CountTokens(scenario) - 100
        IN  \E k \in 0 .. Len(context_history) :
                /\ prompt = Assembled(scenario, MostRecent(context_history, k))
                /\ k > 0 => TokenSum(MostRecent(context_history, k)) <= budget
                /\ k < Len(context_history) =>
                       TokenSum(MostRecent(context_history, k + 1)) > budget

\* an over-budget build that kept the two newest of at least three entries
C13_Witness ==
    /\ ctxOp = "build_prompt"
    /\ CountTokens(Assembled(scenario, context_history)) > max_tokens
    /\ Len(scenario) > 0
    /\ Len(context_history) >= 3
    /\ prompt = Assembled(scenario, MostRecent(context_history, 2))
    /\ context_history[Len(context_history)] # context_history[Len(context_history) - 1]

C15_RemainderCutAgain ==
    (/\ grp_status = "split"
     /\ Len(all_segments) > 0) =>
        LET segment  == speech_segments[1]
            silences == QualifyingSilences(segment, all_segments, min_silence_duration)
        IN  (/\ Len(silences) = 1
             /\ (silences[1].start_time - segment.start_time) * 10 >= max_duration * 8
             /\ segment.end_time - SplitPoint(silences[1]) > max_duration) =>
                /\ Len(sub_segments) >= 2
                /\ sub_segments[1].end_time = SplitPoint(silences[1])
                /\ \A k \in 2 .. Len(sub_segments) :
                       Duration(sub_segments[k]) <= max_duration

(* C16: when a run has returned, for every group whose extraction failed    *)
(* the recognizer was not called and the result list holds a failed entry   *)
(* for that group.                                                          *)
C16_ExtractionFailureRecorded ==
    pc = "returned" =>
        \A g \in 0 .. n_groups - 1 :
            (\A k \in 1 .. Len(combined_segments) : combined_segments[k] # g) =>
                /\ \A k \in 1 .. Len(asr_log) : asr_log[k].segment_id # g
                /\ \E k \in 1 .. Len(results) :
                       results[k].segment_id = g /\ ~results[k].success

(* C17: a run in which speech was found and the extraction failed for every *)
(* group does not return a result.                                          *)
C17_AllExtractionsFailedAborts ==
    (n_groups > 0 /\ Len(combined_segments) = 0) => pc # "returned"

CallerSees ==
    IF Outcome.kind = "result" THEN "Succeeded"
    ELSE IF Outcome.kind = "exception" /\ Outcome.message = ErrorMessage("cancelled")
         THEN "Cancelled"
         ELSE IF Outcome.kind = "exception" THEN "FatalError" ELSE "Running"

-----------------------------------------------------------------------------
(* C20: one ASRClient.recognize call makes at most max_retries + 1 API     *)
(* requests, returns at the first successful one and makes none after it,  *)
(* sleeps retry_delay seconds between two consecutive requests and at no   *)
(* other time, raises after the last failed request, and always ends.      *)

ApiCalls == SelectSeq(asr.trace, LAMBDA e : e.kind = "api_call")

AsrEnded == asr.apc \in {"returned", "raised"}

C20_AttemptsBoundedAndSpaced ==
    asr.client = "ASRClient" =>
        /\ Len(ApiCalls) <= asr.max_retries + 1
        /\ \A i \in 1..Len(asr.trace) :
              /\ (i % 2 = 1) => asr.trace[i].kind = "api_call"
              /\ (i % 2 = 0) => asr.trace[i] = Sleep(asr.retry_delay)
              /\ asr.trace[i].result = "success" =>
                    (i = Len(asr.trace) /\ asr.apc = "returned")
        /\ asr.apc = "returned" =>
              /\ asr.trace # <<>>
              /\ asr.trace[Len(asr.trace)].result = "success"
        /\ asr.apc = "raised" =>
              \/ ~asr.file_valid /\ asr.trace = <<>>
              \/ /\ Len(ApiCalls) = asr.max_retries + 1
                 /\ asr.trace[Len(asr.trace)].kind = "api_call"
        /\ (asr.apc = "loop" /\ asr.trace # <<>>) =>
              asr.trace[Len(asr.trace)].kind = "sleep"

C20_BoundedRetriesTerminate ==
    /\ []C20_AttemptsBoundedAndSpaced
    /\ (asr.client = "ASRClient") ~> AsrEnded

\* the default client raised after four failed requests and three sleeps
C20_Witness ==
    /\ asr.client = "ASRClient"
    /\ asr.max_retries = DefaultMaxRetries
    /\ asr.retry_delay = DefaultRetryDelay
    /\ asr.apc = "raised"
    /\ Len(ApiCalls) = DefaultMaxRetries + 1
    /\ Len(asr.trace) = 2 * DefaultMaxRetries + 1


-----------------------------------------------------------------------------
(* C21: a result with success = TRUE carries a text that is not blank; a   *)
(* response whose extracted text is empty or whitespace only gives a       *)
(* failure, for ASRClient and for both backends; no blank text is added to *)
(* the context history, and none is part of the transcript as a success.   *)

NonBlank(text) == \E i \in DOMAIN text : ~IsSpace(text[i])

\* the text the client extracts from a response
ExtractedText(client, response) ==
    IF client = "SiliconFlow"
    THEN IF response.parts = <<>> THEN <<>> ELSE response.parts[1]
    ELSE Concat(response.parts)

C21_SuccessHasNonBlankText ==
    /\ parsed.result.success => NonBlank(parsed.result.text)
    /\ (parsed.calls > 0 /\ ~NonBlank(ExtractedText(parsed.client, parsed.response)))
          => ~parsed.result.success
    /\ \A k \in 1..Len(added_texts) : NonBlank(added_texts[k])
    /\ \A k \in 1..Len(context_history) : NonBlank(context_history[k])
    /\ \A k \in 1..Len(results) : results[k].success => NonBlank(results[k].text)
    /\ Len(TextsOf(results)) = Len(added_texts)

\* after a success, a response of status 200 with whitespace only was
\* reported as a failure and left the history as it was
C21_Witness ==
    /\ parsed.calls = 2
    /\ parsed.response.status = 200
    /\ parsed.response.parts # <<>>
    /\ ~NonBlank(ExtractedText(parsed.client, parsed.response))
    /\ ExtractedText(parsed.client, parsed.response) # <<>>
    /\ results[1].success
    /\ ~results[2].success
    /\ Len(context_history) = 1


-----------------------------------------------------------------------------
(* C22: a progress milestone is among the reported percentages only when   *)
(* its stage has finished: 10 only after the conversion completed, 20 only *)
(* after VAD gave its result, 30 only after the segments were made, 90     *)
(* only from the save on, and 100 only when the run is done.               *)

Reported(p) == \E k \in 1..Len(progress) : progress[k] = StagePercent(p)

C22_MilestoneAfterStage ==
    /\ Reported(10) =>
          (pc \notin {"constructed", "step1"} /\ error # "conversion_failed")
    /\ Reported(20) =>
          (pc \notin {"constructed", "step1", "step2"} /\ error # "vad_failed")
    /\ Reported(30) =>
          pc \notin {"constructed", "step1", "step2", "step3"}
    /\ Reported(90) =>
          pc \notin {"constructed", "step1", "step2", "step3", "step4"}
    /\ Reported(100) => pc = "returned"


-----------------------------------------------------------------------------
(* C23: a run never deletes the caller's input file.  Once a run has found *)
(* its input, the input stays on disk; for an .opus input no converted     *)
(* copy is made and nothing but segment files is marked for removal; for   *)
(* another input a cleanup that ran through has removed the converted copy *)
(* and every segment file, and the input is still there.                   *)

RunFoundInput == pc \notin {"unused", "constructed"} /\ error # "input_missing"

C23_InputNeverDeleted ==
    RunFoundInput =>
        /\ input_exists
        /\ input_is_opus => (~converted_on_disk /\ ~remove_after)
        /\ (pc = "returned" /\ ~input_is_opus /\ segment_files = {}) =>
              (remove_after /\ (Faults = 0 => ~converted_on_disk))

\* a run on an .opus input returned after removing its three segment files
C23_Witness ==
    /\ pc = "returned"
    /\ input_is_opus
    /\ input_exists
    /\ Len(combined_segments) = 3
    /\ segment_files = {}


-----------------------------------------------------------------------------
(* C24: when the file handed to VAD has a sample rate other than 16000 Hz, *)
(* detect_speech_timestamps raises and gives no result, and the run ends   *)
(* with PipelineError: no segment is made and no recognition call is made. *)

VadReadFile == file_sample_rate # 0

C24_WrongSampleRateAborts ==
    (VadReadFile /\ file_sample_rate # SampleRate) =>
        /\ pc = "raised"
        /\ error = "vad_failed"
        /\ n_groups = 0
        /\ combined_segments = <<>>
        /\ segment_files = {}
        /\ asr_log = <<>>
        /\ results = <<>>
        /\ ret = NoReturn

\* the converted copy of an input had 8000 Hz: the run raised at step 2
C24_Witness ==
    /\ file_sample_rate = SampleRate \div 2
    /\ pc = "raised"
    /\ converted_on_disk
    /\ Len(progress) = 3


-----------------------------------------------------------------------------
(* C25: every speech interval of a VAD result lasts at least               *)
(* min_speech_duration, and the span of every run of speech windows that   *)
(* is shorter than that lies within a silence interval of the result.      *)

\* the maximal runs of windows with a probability above the threshold, as
\* the span the scan gives them
WindowRuns(a) ==
    LET probs == SpeechProbs(a)
        n     == Len(probs)
    IN  {[start |-> (i - 1) * hop_size,
          end   |-> IF j = n THEN AudioLen(a) ELSE j * hop_size] :
            <<i, j>> \in {r \in (1..n) \X (1..n) :
                /\ r[1] <= r[2]
                /\ \A w \in r[1]..r[2] : probs[w] > VadThreshold
                /\ r[1] = 1 \/ probs[r[1] - 1] <= VadThreshold
                /\ r[2] = n \/ probs[r[2] + 1] <= VadThreshold}}

C25_SpeechIntervalsLongEnough ==
    vad_status = "returned" =>
        \A k \in 1..Len(vad_segments) :
            vad_segments[k].is_speech =>
                LongEnough(vad_segments[k].start_time, vad_segments[k].end_time)

C25_ShortRunsBecomeSilence ==
    vad_status = "returned" =>
        /\ C25_SpeechIntervalsLongEnough
        /\ \A run \in WindowRuns(audio_data) :
              ~LongEnough(run.start, run.end) =>
                 \E k \in 1..Len(vad_segments) :
                    /\ ~vad_segments[k].is_speech
                    /\ vad_segments[k].start_time <= run.start
                    /\ run.end <= vad_segments[k].end_time


-----------------------------------------------------------------------------
(* C26: the groups, concatenated in order, are the speech intervals in     *)
(* time order with every interval longer than max_duration replaced by its *)
(* fragments; no group is empty; for intervals that do not overlap, a      *)
(* group ends before the next one starts; one interval shorter than        *)
(* max_duration gives one group holding that interval alone.               *)

RECURSIVE Flatten(_)
Flatten(lists) ==
    IF Len(lists) = 0 THEN <<>> ELSE lists[1] \o Flatten(Tail(lists))

\* the intervals the groups are to hold, in order
ExpectedMembers ==
    LET sorted == SortByStart(speech_segments)
    IN  Flatten([i \in 1..Len(sorted) |->
            IF Duration(sorted[i]) > max_duration
            THEN SplitLongSegment(sorted[i], all_segments, max_duration,
                                  min_silence_duration)
            ELSE <<sorted[i]>>])

\* the speech intervals of a VAD result do not overlap
InputDisjoint ==
    \A i, j \in DOMAIN speech_segments :
        i # j => \/ speech_segments[i].end_time <= speech_segments[j].start_time
                 \/ speech_segments[j].end_time <= speech_segments[i].start_time

C26_GroupsPartitionIntervals ==
    grp_status = "grouped" =>
        /\ Flatten(groups) = ExpectedMembers
        /\ \A g \in DOMAIN groups : Len(groups[g]) > 0
        /\ InputDisjoint =>
              \A g \in 1..(Len(groups) - 1) :
                  /\ groups[g][1].start_time < groups[g + 1][1].start_time
                  /\ groups[g][Len(groups[g])].end_time <= groups[g + 1][1].start_time
        /\ (Len(speech_segments) = 1 /\ Duration(speech_segments[1]) < max_duration) =>
              groups = <<speech_segments>>

\* three disjoint intervals given in reverse time order, one of them longer
\* than max_duration, made at least three groups
C26_Witness ==
    /\ grp_status = "grouped"
    /\ Len(speech_segments) = 3
    /\ InputDisjoint
    /\ speech_segments[1].start_time > speech_segments[3].start_time
    /\ \E i \in DOMAIN speech_segments : Duration(speech_segments[i]) > max_duration
    /\ \E g \in DOMAIN groups : Len(groups[g]) = 2
    /\ Len(groups) >= 3


-----------------------------------------------------------------------------
(* C27: every segment create_segments_from_vad returns, which is every     *)
(* segment handed to recognition, has a measured duration of at most       *)
(* max_duration and a file size of at most max_size.                       *)

C27_ReturnedSegmentsWithinLimits ==
    \A k \in 1..Len(mat.audio_segments) :
        /\ mat.audio_segments[k].duration <= mat.max_duration
        /\ mat.audio_segments[k].file_size <= mat.max_size
        /\ ValidateSegment(mat.audio_segments[k], mat.max_duration, mat.max_size)


-----------------------------------------------------------------------------
(* C28: failed recognition calls never make the run raise: a run that has  *)
(* raised after a call failed was cancelled or could not save; and a run   *)
(* that returned with failed calls, some or all, has handled every         *)
(* segment, written the output, reported 100 percent and returns the       *)
(* successes over the outcomes as its rate.                                *)

FailedCalls == {k \in 1 .. Len(asr_log) : asr_log[k].outcome = "raise"}

C28_RecognitionFailuresNotFatal ==
    FailedCalls # {} =>
        /\ pc = "raised" => error \in {"cancelled", "save_failed"}
        /\ pc = "returned" =>
              /\ Len(results) = Len(combined_segments)
              /\ output_file.written
              /\ output_file.text = TextContent(results)
              /\ progress[Len(progress)] = StagePercent(100)
              /\ ret # NoReturn
              /\ ret.rate_num = Len(results) - Cardinality(FailedCalls)
              /\ ret.rate_den = Len(results)
              /\ error = "none"

\* both calls of a run of two segments failed: it returned, with rate 0/2
\* and an empty text, and left no segment file
C28_Witness ==
    /\ pc = "returned"
    /\ Len(combined_segments) = 2
    /\ Cardinality(FailedCalls) = 2
    /\ ret.rate_num = 0
    /\ ret.rate_den = 2
    /\ output_file.written
    /\ segment_files = {}
    /\ ~converted_on_disk


-----------------------------------------------------------------------------
(* C29: an interval not longer than max_duration joins the open group      *)
(* exactly when its end minus the start of the open group is at most       *)
(* max_duration; so of two consecutive groups made by packing, the first   *)
(* interval of the later one ends more than max_duration after the start   *)
(* of the earlier one.                                                     *)

\* a group made by packing: its intervals are input intervals not longer
\* than max_duration (for input intervals that do not overlap, no fragment
\* of a split interval is one)
Packed(g) ==
    \A k \in DOMAIN g :
        /\ Duration(g[k]) <= max_duration
        /\ \E i \in DOMAIN speech_segments : speech_segments[i] = g[k]

-----------------------------------------------------------------------------
(* C30: for intervals that do not overlap, a group that holds a fragment   *)
(* of an interval longer than max_duration holds nothing else, and every   *)
(* other group lies wholly before or wholly after that interval: the open  *)
(* group was closed before the fragments, and the interval that follows    *)
(* starts a group of its own.                                              *)

Oversized == {i \in DOMAIN speech_segments : Duration(speech_segments[i]) > max_duration}

Within(seg, whole) ==
    whole.start_time <= seg.start_time /\ seg.end_time <= whole.end_time

IsFragmentGroup(g) ==
    \E i \in Oversized : \E k \in DOMAIN g : Within(g[k], speech_segments[i])

C30_FragmentsAreSingletonGroups ==
    (grp_status = "grouped" /\ InputDisjoint) =>
        \A g \in DOMAIN groups :
            IF IsFragmentGroup(groups[g])
            THEN Len(groups[g]) = 1
            ELSE \A i \in Oversized :
                    \/ \A k \in DOMAIN groups[g] :
                          groups[g][k].end_time <= speech_segments[i].start_time
                    \/ \A k \in DOMAIN groups[g] :
                          groups[g][k].start_time >= speech_segments[i].end_time

\* a short interval, an interval longer than max_duration and a short one:
\* the first is a group alone, and the last is a group alone although it
\* would have fitted the last fragment
C30_Witness ==
    /\ grp_status = "grouped"
    /\ InputDisjoint
    /\ Len(speech_segments) = 3
    /\ Oversized = {2}
    /\ speech_segments[1].start_time < speech_segments[2].start_time
    /\ speech_segments[2].start_time < speech_segments[3].start_time
    /\ Len(groups) >= 4
    /\ groups[1] = <<speech_segments[1]>>
    /\ groups[Len(groups)] = <<speech_segments[3]>>
    /\ speech_segments[3].end_time - groups[Len(groups) - 1][1].start_time
          <= max_duration
    /\ speech_segments[2].start_time - speech_segments[1].start_time < max_duration

-----------------------------------------------------------------------------
(* C31: when _smart_split_at_silence cuts an oversized interval at silences, *)
(* every cut point is the midpoint of a silence of the timeline that lies    *)
(* inside the interval, lasts at least min_silence_duration and starts at    *)
(* least 80% of max_duration after the start of the fragment the cut ends;   *)
(* the silences are taken in timeline order and each cut uses the first      *)
(* such silence after the one of the previous cut.                           *)

\* silence number i of the timeline is one the splitter may cut at
C31_Qualifies(i) ==
    LET x == all_segments[i]
        seg == speech_segments[1]
    IN  /\ ~x.is_speech
        /\ x.start_time >= seg.start_time
        /\ x.end_time <= seg.end_time
        /\ x.end_time - x.start_time >= min_silence_duration

\* the split was made by _smart_split_at_silence with a silence to consider
SmartSplitUsed ==
    /\ grp_status = "split"
    /\ \E i \in 1..Len(all_segments) : C31_Qualifies(i)

\* silence number i starts at least 0.8 * max_duration after time t
C31_FarEnough(i, t) == (all_segments[i].start_time - t) * 10 >= max_duration * 8

\* f names, for every cut, the silence of the timeline it was made at
C31_CutsAt(f) ==
    \A j \in DOMAIN f :
        LET i == f[j]
            from == sub_segments[j].start_time
            prev == IF j = 1 THEN 0 ELSE f[j - 1]
        IN  /\ prev < i
            /\ C31_Qualifies(i)
            /\ C31_FarEnough(i, from)
            /\ 2 * sub_segments[j].end_time
                   = all_segments[i].start_time + all_segments[i].end_time
            /\ sub_segments[j + 1].start_time = sub_segments[j].end_time
            /\ \A k \in (prev + 1)..(i - 1) :
                   C31_Qualifies(k) => ~C31_FarEnough(k, from)

C31_CutsAtFirstFarSilence ==
    SmartSplitUsed =>
        /\ Len(sub_segments) >= 1
        /\ sub_segments[1].start_time = speech_segments[1].start_time
        /\ \E f \in [1..(Len(sub_segments) - 1) -> 1..Len(all_segments)] :
               C31_CutsAt(f)

\* a cut was made, and a silence that could be cut at was passed over before
\* it because it starts too early in its fragment
C31_Witness ==
    /\ SmartSplitUsed
    /\ Len(sub_segments) = 2
    /\ \E i \in 1..Len(all_segments) :
           /\ C31_Qualifies(i)
           /\ all_segments[i].end_time <= sub_segments[1].end_time
           /\ 2 * sub_segments[1].end_time
                  # all_segments[i].start_time + all_segments[i].end_time

-----------------------------------------------------------------------------
(* C32: an interval [s, e] longer than max_duration that is split without a  *)
(* timeline, or with a timeline that holds no silence inside it of at least  *)
(* min_silence_duration, is cut into [s + k*max_duration,                    *)
(* min(s + (k+1)*max_duration, e)] for k = 0, 1, ...; every fragment but the *)
(* last lasts exactly max_duration, and every fragment, the last remainder   *)
(* included, is a group of its own in the grouping.                          *)

\* the timeline in use holds no silence the splitter may cut seg at
C32_NoQualifyingSilence(seg) ==
    \A i \in 1..Len(all_segments) :
        LET x == all_segments[i]
        IN  ~ /\ ~x.is_speech
              /\ x.start_time >= seg.start_time
              /\ x.end_time <= seg.end_time
              /\ x.end_time - x.start_time >= min_silence_duration

\* the number of fixed-length fragments of seg
C32_Count(seg) ==
    (seg.end_time - seg.start_time + max_duration - 1) \div max_duration

\* fixed-length fragment number k (from 0) of seg
C32_Fragment(seg, k) ==
    VADSegment(seg.start_time + k * max_duration,
               Min(seg.start_time + (k + 1) * max_duration, seg.end_time),
               seg.is_speech)

C32_FixedLengthSplit ==
    /\ (grp_status = "split" /\ C32_NoQualifyingSilence(speech_segments[1])) =>
           /\ Len(sub_segments) = C32_Count(speech_segments[1])
           /\ \A k \in 1..Len(sub_segments) :
                  /\ sub_segments[k] = C32_Fragment(speech_segments[1], k - 1)
                  /\ k < Len(sub_segments) =>
                         Duration(sub_segments[k]) = max_duration
    /\ grp_status = "grouped" =>
           \A n \in 1..Len(speech_segments) :
               LET seg == speech_segments[n]
               IN  (Duration(seg) > max_duration /\ C32_NoQualifyingSilence(seg)) =>
                       \A k \in 0..(C32_Count(seg) - 1) :
                           \E g \in 1..Len(groups) :
                               groups[g] = <<C32_Fragment(seg, k)>>

\* a grouping with a timeline whose silence is too short to cut at: the
\* oversized interval gave two full fragments and a remainder of length 2,
\* each a group of its own
C32_Witness ==
    /\ grp_status = "grouped"
    /\ Len(all_segments) > Len(speech_segments)
    /\ \E n \in 1..Len(speech_segments) :
           LET seg == speech_segments[n]
           IN  /\ Duration(seg) = 2 * max_duration + 2
               /\ C32_NoQualifyingSilence(seg)
               /\ \E g \in 1..Len(groups) : groups[g] = <<C32_Fragment(seg, 2)>>

-----------------------------------------------------------------------------
(* C33: a step that ends with a prompt just built leaves the scenario and    *)
(* the context history as they were; during a run of the pipeline the        *)
(* scenario never changes, and the history changes only in the step in which *)
(* a recognition call returns successfully, by the text of that call being   *)
(* appended (the oldest entry leaving a full history); a call that raises    *)
(* leaves the history as it was.                                             *)

\* the call that was in flight has just ended with this outcome
C33_CallEnded(outcome) ==
    /\ pc = "rec_wait"
    /\ pc' # "rec_wait"
    /\ asr_log'[Len(asr_log')].outcome = outcome

\* h with text appended, the oldest entry dropped beyond the limit
C33_Appended(h, text) ==
    IF Len(h) < HistoryLimit THEN Append(h, text) ELSE Append(Tail(h), text)

-----------------------------------------------------------------------------
(* C34: a run that returns with n >= 1 segments has handed the callback the  *)
(* percentages 0, 10, 20, 30, 40, then 40 + 50*i/n for i = 1..n in order,    *)
(* then 90, then 100, and nothing else; in every run the percentages never   *)
(* decrease; 100 is handed over only by a run that returns, as its last      *)
(* progress event.                                                           *)

\* the percentage p is the rational num / den
C34_Is(p, num, den) == p.num * den = num * p.den

\* percentage p is at most percentage q
C34_AtMost(p, q) == p.num * q.den <= q.num * p.den

C34_ProgressSequence ==
    /\ (pc = "returned" /\ Len(combined_segments) >= 1) =>
           LET n == Len(combined_segments)
           IN  /\ Len(progress) = n + 7
               /\ \A k \in 1..5 : C34_Is(progress[k], 10 * (k - 1), 1)
               /\ \A i \in 1..n : C34_Is(progress[5 + i], 40 * n + 50 * i, n)
               /\ C34_Is(progress[n + 6], 90, 1)
               /\ C34_Is(progress[n + 7], 100, 1)
    /\ \A k \in 1..(Len(progress) - 1) : C34_AtMost(progress[k], progress[k + 1])
    /\ \A k \in 1..Len(progress) :
           C34_Is(progress[k], 100, 1) => (pc = "returned" /\ k = Len(progress))

\* a returned run of three segments, one of whose calls raised
C34_Witness ==
    /\ pc = "returned"
    /\ Len(combined_segments) = 3
    /\ SuccessCount(results) = 2
    /\ Len(progress) = 10
    /\ C34_Is(progress[7], 220, 3)

-----------------------------------------------------------------------------
(* C35: when the timeline is ordered, gapless and non-overlapping and the    *)
(* speech intervals are taken from it, no silence of the timeline lies       *)
(* inside a speech interval, so an oversized speech interval is split by     *)
(* fixed-length cuts only: the split and the grouping are the ones made      *)
(* without a timeline.                                                       *)

\* the timeline in use is not empty and each interval starts where the one
\* before it ends
C35_Tiling ==
    /\ Len(all_segments) > 0
    /\ \A i \in 1..Len(all_segments) : Duration(all_segments[i]) > 0
    /\ \A i \in 1..(Len(all_segments) - 1) :
           all_segments[i].end_time = all_segments[i + 1].start_time

\* every speech interval handed over is an interval of the timeline
C35_SpeechFromTimeline ==
    \A n \in 1..Len(speech_segments) :
        \E i \in 1..Len(all_segments) : all_segments[i] = speech_segments[n]

C35_TilingGivesFixedLengthCuts ==
    (C35_Tiling /\ C35_SpeechFromTimeline) =>
        /\ \A n \in 1..Len(speech_segments) :
               C32_NoQualifyingSilence(speech_segments[n])
        /\ grp_status = "split" =>
               /\ Len(sub_segments) = C32_Count(speech_segments[1])
               /\ \A k \in 1..Len(sub_segments) :
                      sub_segments[k] = C32_Fragment(speech_segments[1], k - 1)
        /\ grp_status = "grouped" =>
               groups = GroupSpeechSegments(speech_segments, <<>>, max_duration,
                                            min_silence_duration)

\* an oversized speech interval between two silences of the timeline, the
\* first of them long enough to cut at, was split into its fixed-length pieces
C35_Witness ==
    /\ grp_status = "split"
    /\ C35_Tiling
    /\ C35_SpeechFromTimeline
    /\ Len(all_segments) = 3
    /\ ~all_segments[1].is_speech
    /\ Duration(all_segments[1]) >= min_silence_duration
    /\ ~all_segments[3].is_speech
    /\ Len(sub_segments) = 2

-----------------------------------------------------------------------------
(* C36: when process_audio_file is called a second time on the same Pipeline *)
(* object, the context history is, until the first recognition of the second *)
(* run returns, the history the first run left; so the prompt built for the  *)
(* first segment of the second run ends with the texts recognized in the     *)
(* first run.                                                                *)

\* seq ends with the elements of tail
C36_EndsWith(seq, tail) ==
    /\ Len(seq) >= Len(tail)
    /\ SubSeq(seq, Len(seq) - Len(tail) + 1, Len(seq)) = tail

C36_HistorySurvivesRuns ==
    runs.which = "second" =>
        /\ Len(results) = 0 => context_history = runs.carried
        /\ (pc \in {"rec_call", "rec_wait"} /\ seg_index = 1
            /\ Len(runs.carried) > 0) =>
               C36_EndsWith(prompt, Join(<<" ">>, runs.carried))

\* the first call in the second run is about to be made, with a prompt that
\* holds the two texts recognized in the first run
C36_Witness ==
    /\ runs.which = "second"
    /\ pc = "rec_call"
    /\ seg_index = 1
    /\ runs.carried = <<SegmentText(0), SegmentText(1)>>
    /\ C36_EndsWith(prompt, SegmentText(0) \o <<" ">> \o SegmentText(1))

-----------------------------------------------------------------------------
(* C37: at most one worker thread is alive at any time, and no two workers   *)
(* are in the stage that writes the segment files at the same time.          *)

AliveWorkers == {w \in 1..Len(gui.workers) : Alive(w)}

CuttingWorkers == {w \in 1..Len(gui.workers) : gui.workers[w].pc = "cutting"}

C37_AtMostOneWorkerAlive ==
    /\ Cardinality(AliveWorkers) <= 1
    /\ Cardinality(CuttingWorkers) <= 1

-----------------------------------------------------------------------------
(* C38: a run that comes to one of its check points (the check before each   *)
(* of the five stages, or the one at the top of the recognition loop) with   *)
(* the stop event set raises the cancellation error, writes no output file   *)
(* and returns no result, also when every segment has been recognized; the   *)
(* output file is written only in a step that passed the check before the    *)
(* save stage with the event unset.                                          *)

\* the positions of the run at which the stop event is tested next
CheckPoints == {"step1", "step2", "step3", "step4", "rec_check", "step5"}

C38_CancelSeenMeansNoOutput ==
    [][/\ (stop_set /\ pc \in CheckPoints /\ pc' # pc) =>
              /\ pc' = "raised"
              /\ error' = "cancelled"
              /\ output_file' = NoOutput
              /\ ret' = NoReturn
       /\ output_file' # output_file =>
              /\ pc = "step5"
              /\ ~stop_set
              /\ output_file = NoOutput
       /\ (pc = "raised" /\ error = "cancelled") =>
              (output_file = NoOutput /\ ret = NoReturn)]_vars

\* all three segments were recognized, and the check before the save stage
\* saw the event set
C38_Witness ==
    /\ pc = "raised"
    /\ error = "cancelled"
    /\ Len(combined_segments) = 3
    /\ Len(results) = 3
    /\ SuccessCount(results) = 3
    /\ output_file = NoOutput
    /\ ret = NoReturn

-----------------------------------------------------------------------------
(* C39: a call of ASRClient.recognize ends either by returning the result of *)
(* a successful attempt or by raising; it never hands back a failed result.  *)
(* For a missing or oversized file it raises without making a request.  So   *)
(* the entry the recognition loop records for a call that did not succeed is *)
(* the one its exception handler makes, which has no text, and the           *)
(* aggregation takes no text from it.                                        *)

\* what the loop of _recognize_segments sees of the call
C39_LoopOutcome == IF asr.apc = "returned" THEN "ok" ELSE "raise"

C39_RecognizeReturnsSuccessOrRaises ==
    asr.client = "ASRClient" =>
        /\ asr.apc \in {"constructed", "loop", "sleeping", "returned", "raised"}
        /\ asr.apc = "returned" =>
               /\ asr.trace # <<>>
               /\ asr.trace[Len(asr.trace)] = ApiCall("success")
        /\ (~asr.file_valid /\ asr.apc # "constructed") =>
               (asr.apc = "raised" /\ asr.trace = <<>>)
        /\ asr.apc = "raised" =>
               LET entry == ResultEntry(0, C39_LoopOutcome, <<>>)
               IN  /\ ~entry.success
                   /\ ~entry.has_text
                   /\ TextsOf(<<entry>>) = <<>>

\* the call raised after its last attempt was answered with a result that
\* reports no success
C39_Witness ==
    /\ asr.client = "ASRClient"
    /\ asr.apc = "raised"
    /\ asr.file_valid
    /\ Len(asr.trace) >= 3
    /\ asr.trace[Len(asr.trace)] = ApiCall("rejected")

=============================================================================
